---- MODULE Spec2Model ----
(***************************************************************************)
(* monke.army bin-farm: custody of Meteora DLMM positions.                 *)
(*                                                                         *)
(* The model follows programs/bin-farm/src/lib.rs.  Every instruction is   *)
(* one atomic action (a Solana transaction either commits all its writes   *)
(* or none).  The Meteora pool, the SPL token program and the Clock sysvar *)
(* are the environment.  `result` carries what an instruction returned     *)
(* (Ok or the CoreError) together with the values of its emitted event and *)
(* the amounts it transferred.                                             *)
(***************************************************************************)
EXTENDS Integers, Sequences, FiniteSets, TLC

\* ------------------------------------------------------------------ bounds
\* bins of the modelled pool are 0..MaxBin
MaxBin == 2
\* longest bin_ids vector a harvest call is given
MaxIds == 3
\* how many times the rover_authority account is funded
MaxSweeps == 2
\* how many positions are ever opened (config.total_positions)
MaxOpens == 2
\* clock: slots advance in steps of SlotStep, at most MaxSlotTicks times
MaxSlotTicks == 2
\* clock: a long stretch of slots, more than half the largest threshold
LongSlotStep == 4501
\* counters are unsigned words 0..MaxWord (u64 in the program)
MaxWord == 1000000
\* clock: unix time advances in steps of TimeStep, at most MaxTimeTicks times
MaxTimeTicks == 2

\* ------------------------------------------------------- program constants
MIN_POSITION_AMOUNT == 10000
MIN_ROVER_DEPOSIT == 10000
MIN_ROVER_BIN_STEP == 20
MAX_POSITION_WIDTH == 70

\* ------------------------------------------------------------- identities
DefaultPubkey == "default"
Admin == "admin"
Bot == "bot"
Keeper == "keeper"
RoverAuthorityKey == "rover_authority"
Users == {"alice", "bob"}
\* keys of Meteora positions; Pubkey::default() where none is stored
PositionKeys == {"p1", "p2"}
NoPositionKey == DefaultPubkey

BinIds == 0 .. MaxBin
ActiveIds == -1 .. (MaxBin + 1)
SlotStep == 100
TimeStep == 43200

Sides == {"Buy", "Sell"}
RevenueDests == {"dist_pool", "pool_a", "pool_b"}

VARIABLES clock, config, rover_authority, position, vault, vault_token, lb_pair, meteora,
          wallets, result,
          monke_state, monke_burn, nft, bananas, monke_lamports

vars == <<clock, config, rover_authority, position, vault, vault_token, lb_pair, meteora,
         wallets, result, monke_state, monke_burn, nft, bananas, monke_lamports>>
ledger == <<config, rover_authority, position, vault, vault_token, lb_pair, meteora, wallets>>
\* the accounts of the revenue-share program (monke_bananas)
monke == <<monke_state, monke_burn, nft, bananas, monke_lamports>>

\* ---------------------------------------------------------------- helpers
Min(S) == CHOOSE x \in S : \A y \in S : x <= y
Max(S) == CHOOSE x \in S : \A y \in S : x >= y
Range(s) == {s[i] : i \in 1 .. Len(s)}

\* f[lo] + ... + f[hi] over the bins of the pool
RECURSIVE SumBins(_, _, _)
SumBins(f, lo, hi) == IF lo > hi THEN 0
                      ELSE (IF lo \in DOMAIN f THEN f[lo] ELSE 0) + SumBins(f, lo + 1, hi)

\* all sequences over S of length 1..n, and the empty one
RECURSIVE SeqsUpTo(_, _)
SeqsUpTo(S, n) == IF n = 0 THEN {<<>>}
                  ELSE LET shorter == SeqsUpTo(S, n - 1)
                       IN shorter \cup {Append(s, x) : s \in {t \in shorter : Len(t) = n - 1}, x \in S}

\* u64::saturating_add and the failure of u64::checked_add
\* a variant that wraps around
SaturatingAdd_Wrapping(a, b) == (a + b) % (MaxWord + 1)

SaturatingAdd(a, b) == IF a + b > MaxWord THEN MaxWord ELSE a + b
CheckedAddOverflows(a, b) == a + b > MaxWord

\* ------------------------------------------------------------------ state
\* no token account passed as remaining_accounts[0]
NoAta == [key |-> "none", mint |-> "none"]

\* result of an instruction: Ok (err = "") or the error, and what it moved
NoResult ==
  [op |-> "none", err |-> "", signer |-> DefaultPubkey, position |-> NoPositionKey,
   bin_ids |-> <<>>, side |-> "Buy", is_authorized_bot |-> FALSE,
   x_before |-> 0, y_before |-> 0, x_received |-> 0, y_received |-> 0,
   x_fee |-> 0, y_fee |-> 0, x_tip |-> 0, y_tip |-> 0,
   x_to_protocol |-> 0, y_to_protocol |-> 0, x_to_owner |-> 0, y_to_owner |-> 0,
   recipient |-> DefaultPubkey, from_vault |-> NoPositionKey,
   side_arg |-> "Buy", min_bin_id |-> 0, deposit_x |-> 0, deposit_y |-> 0,
   lamports |-> 0, value |-> 0, max_bin_id |-> 0, keeper_ata |-> NoAta]

Rejected(op, err) == [NoResult EXCEPT !.op = op, !.err = err]

NoConfig ==
  [initialized |-> FALSE, authority |-> DefaultPubkey, pending_authority |-> DefaultPubkey,
   bot |-> DefaultPubkey, fee_bps |-> 0, pending_fee_bps |-> 0, fee_change_at |-> 0,
   total_positions |-> 0, total_volume |-> 0, paused |-> FALSE, bot_paused |-> FALSE,
   last_bot_harvest_slot |-> 0, keeper_tip_bps |-> 0, priority_slots |-> 0,
   total_harvested |-> 0, pending_emergency_close |-> NoPositionKey,
   emergency_close_at |-> 0, last_bot_close_slot |-> 0, last_bot_sweep_slot |-> 0]

NoRoverAuthority ==
  [initialized |-> FALSE, revenue_dest |-> DefaultPubkey, total_rover_positions |-> 0,
   pending_revenue_dest |-> DefaultPubkey, revenue_dest_change_at |-> 0]

NoPosition ==
  [initialized |-> FALSE, owner |-> DefaultPubkey, meteora_position |-> NoPositionKey,
   side |-> "Buy", min_bin_id |-> 0, max_bin_id |-> 0, initial_amount |-> 0,
   harvested_amount |-> 0, created_at |-> 0]

NoVault == [initialized |-> FALSE, position |-> NoPositionKey]

ZeroBins == [b \in BinIds |-> 0]

\* the Meteora position account: liquidity per bin of the pool's window
\* 0..MaxBin, the liquidity it holds in bins above the window, and unclaimed
\* swap fees
NoMeteoraPosition ==
  [exists |-> FALSE, liq_x |-> ZeroBins, liq_y |-> ZeroBins,
   liq_x_above |-> 0, liq_y_above |-> 0, fee_x |-> 0, fee_y |-> 0]

\* lamports above rent and fee tokens held by the rover_authority account, and
\* the lamports each revenue destination has been paid
NoWallets == [rover_lamports |-> 0, rover_token_x |-> 0,
              dest |-> [d \in RevenueDests |-> 0]]

\* ------------------------------------------- revenue share: accounts
\* the accumulator scale (1e12 in the program) and the smallest deposit
\* (10_000_000 lamports in the program), scaled down together so that the
\* products fit the checker's integers and divisions still round
PRECISION == 1000
MIN_DEPOSIT_LAMPORTS == 10
\* $BANANAS burned by one feed, in units of one feed
BANANAS_PER_FEED == 1
\* Rent::minimum_balance(0), which a program-owned account never goes below
RentMinimum == 2
\* feeds each user can pay for
BananasEach == 2
\* NFT mints: one of the Gen2 collection, one of Gen3, one of neither
Mints == {"smb2", "smb3", "other"}
Collection(n) == IF n = "smb2" THEN "smb_gen2" ELSE IF n = "smb3" THEN "smb_gen3" ELSE "none"
NoHolder == DefaultPubkey
NoMonkeBurn == [exists |-> FALSE, share_weight |-> 0, reward_debt |-> 0, claimed_sol |-> 0]

\* monke_bananas::initialize has run; no NFT has been fed
MonkeInit ==
  /\ monke_state = [authority |-> Admin, total_share_weight |-> 0,
                    accumulated_sol_per_share |-> 0, total_sol_distributed |-> 0,
                    total_bananas_burned |-> 0, paused |-> FALSE]
  /\ monke_burn = [n \in Mints |-> NoMonkeBurn]
  /\ nft = [n \in Mints |-> [holder |-> "alice", supply |-> 1]]
  /\ bananas = [u \in Users |-> BananasEach * BANANAS_PER_FEED]
  /\ monke_lamports = [a \in {"program_vault", "dist_pool"} \cup Users |->
                         IF a \in Users THEN 0 ELSE RentMinimum]

Init ==
  /\ clock = [slot |-> 0, unix_timestamp |-> 0]
  /\ config = NoConfig
  /\ rover_authority = NoRoverAuthority
  /\ position = [p \in PositionKeys |-> NoPosition]
  /\ vault = [p \in PositionKeys |-> NoVault]
  /\ vault_token = [p \in PositionKeys |-> [x |-> 0, y |-> 0]]
  /\ lb_pair = [active_id |-> 0]
  /\ meteora = [p \in PositionKeys |-> NoMeteoraPosition]
  /\ wallets = NoWallets
  /\ MonkeInit
  /\ result = NoResult

\* ------------------------------------------------------------ environment
\* Clock sysvar: slot and unix_timestamp only move forward
AdvanceClock(ds, dt) ==
  /\ ds + dt > 0
  /\ clock.slot + ds <= Max({ds, SlotStep}) * MaxSlotTicks
  /\ clock.unix_timestamp + dt <= TimeStep * MaxTimeTicks
  /\ clock' = [slot |-> clock.slot + ds, unix_timestamp |-> clock.unix_timestamp + dt]
  /\ UNCHANGED monke /\ result' = NoResult
  /\ UNCHANGED ledger

\* the Clock sysvar moves on by ds slots
AdvanceSlots(ds) ==
  /\ ds > 0
  /\ clock' = [clock EXCEPT !.slot = @ + ds]
  /\ UNCHANGED monke /\ result' = NoResult
  /\ UNCHANGED ledger

\* a bin below the active bin holds only token Y, a bin above it only token X
ConvertBins(mp, active) ==
  [mp EXCEPT
     !.liq_x = [b \in BinIds |-> IF b < active THEN 0
                                 ELSE IF b > active THEN mp.liq_x[b] + mp.liq_y[b]
                                 ELSE mp.liq_x[b]],
     !.liq_y = [b \in BinIds |-> IF b > active THEN 0
                                 ELSE IF b < active THEN mp.liq_y[b] + mp.liq_x[b]
                                 ELSE mp.liq_y[b]],
     !.liq_x_above = IF active <= MaxBin THEN mp.liq_x_above + mp.liq_y_above
                     ELSE mp.liq_x_above,
     !.liq_y_above = IF active <= MaxBin THEN 0 ELSE mp.liq_y_above]

\* traders move the pool's active bin by one
Swap(d) ==
  /\ lb_pair.active_id + d \in ActiveIds
  /\ lb_pair' = [lb_pair EXCEPT !.active_id = lb_pair.active_id + d]
  /\ meteora' = [p \in PositionKeys |-> ConvertBins(meteora[p], lb_pair.active_id + d)]
  /\ UNCHANGED monke /\ result' = NoResult
  /\ UNCHANGED <<clock, config, rover_authority, position, vault, vault_token, wallets>>

\* the pool credits swap fees to a position that has none unclaimed
AccrueSwapFees(p, amt) ==
  /\ meteora[p].exists
  /\ meteora[p].fee_x = 0
  /\ meteora[p].fee_y = 0
  /\ meteora' = [meteora EXCEPT ![p].fee_x = amt, ![p].fee_y = amt]
  /\ UNCHANGED monke /\ result' = NoResult
  /\ UNCHANGED <<clock, config, rover_authority, position, vault, vault_token, lb_pair, wallets>>

\* anyone may send tokens to a vault's token account
Donate(p, tok, amt) ==
  /\ position[p].initialized
  /\ position[p].harvested_amount = 0
  /\ vault_token[p].x = 0
  /\ vault_token[p].y = 0
  /\ vault_token' = [vault_token EXCEPT ![p] =
                        IF tok = "X" THEN [x |-> amt, y |-> 0]
                        ELSE IF tok = "Y" THEN [x |-> 0, y |-> amt]
                        ELSE [x |-> amt, y |-> 2 * amt]]
  /\ UNCHANGED monke /\ result' = NoResult
  /\ UNCHANGED <<clock, config, rover_authority, position, vault, lb_pair, meteora, wallets>>

\* ------------------------------------------------- Meteora DLMM (the CPIs)
\* initialize_position2 followed by add_liquidity_by_strategy2: the deposit is
\* spread over the bins of the range that can hold the deposited token
AddLiquidity(amount_x, amount_y, active_id, min_bin_id, max_bin_id) ==
  LET xs == {b \in min_bin_id .. max_bin_id : b >= active_id}
      ys == {b \in min_bin_id .. max_bin_id : b <= active_id}
      spread(amount, bins) ==
        [b \in BinIds |-> IF b \notin bins \/ amount = 0 THEN 0
                          ELSE amount \div Cardinality(bins)
                               + (IF b = Min(bins) THEN amount % Cardinality(bins) ELSE 0)]
      above(amount, bins) ==
        LET out == {b \in bins : b > MaxBin}
        IN IF out = {} \/ amount = 0 THEN 0
           ELSE Cardinality(out) * (amount \div Cardinality(bins))
                + (IF Min(bins) > MaxBin THEN amount % Cardinality(bins) ELSE 0)
  IN [exists |-> TRUE, liq_x |-> spread(amount_x, xs), liq_y |-> spread(amount_y, ys),
      liq_x_above |-> above(amount_x, xs), liq_y_above |-> above(amount_y, ys),
      fee_x |-> 0, fee_y |-> 0]

\* whether add_liquidity_by_strategy2 can place the deposit at all
CanAddLiquidity(amount_x, amount_y, active_id, min_bin_id, max_bin_id) ==
  /\ amount_x > 0 => \E b \in min_bin_id .. max_bin_id : b >= active_id
  /\ amount_y > 0 => \E b \in min_bin_id .. max_bin_id : b <= active_id

\* remove_liquidity_by_range2 with bps_to_remove = 10_000: everything in
\* from_bin..to_bin leaves the position; RemovedX / RemovedY is what arrives.
\* The bins above the window leave together, with a range that reaches past
\* the window (a close removes min_bin_id..max_bin_id).
BinsRemoved(from_bin, to_bin) == {b \in BinIds : from_bin <= b /\ b <= to_bin}
RemovedX(mp, from_bin, to_bin) ==
  SumBins(mp.liq_x, from_bin, Min({to_bin, MaxBin}))
  + (IF to_bin > MaxBin THEN mp.liq_x_above ELSE 0)
RemovedY(mp, from_bin, to_bin) ==
  SumBins(mp.liq_y, from_bin, Min({to_bin, MaxBin}))
  + (IF to_bin > MaxBin THEN mp.liq_y_above ELSE 0)
RemoveLiquidityByRange(mp, from_bin, to_bin) ==
  [mp EXCEPT !.liq_x = [b \in BinIds |-> IF b \in BinsRemoved(from_bin, to_bin) THEN 0 ELSE mp.liq_x[b]],
             !.liq_y = [b \in BinIds |-> IF b \in BinsRemoved(from_bin, to_bin) THEN 0 ELSE mp.liq_y[b]],
             !.liq_x_above = IF to_bin > MaxBin THEN 0 ELSE mp.liq_x_above,
             !.liq_y_above = IF to_bin > MaxBin THEN 0 ELSE mp.liq_y_above]

\* claim_fee2: the unclaimed swap fees leave the position
\* a variant that pays the swap fees out and leaves them claimable
ClaimFee_LeavesFees(mp) == mp

ClaimFee(mp) == [mp EXCEPT !.fee_x = 0, !.fee_y = 0]

\* ------------------------------------------------------ program: helpers
\* a variant that trusts the caller's side argument
DeriveSide_FromArgument(min_bin_id, active_id, side_arg) == side_arg

\* side from the pool's active id (lib.rs:132)
DeriveSide(min_bin_id, active_id, side_arg) ==
  IF min_bin_id > active_id THEN "Sell" ELSE "Buy"

\* a variant that divides by 1_000
FeeOf_Thousandths(amount, bps) == (amount * bps) \div 1000

\* amount * bps / 10_000 in u128, truncated (lib.rs:372-374)
FeeOf(amount, bps) == (amount * bps) \div 10000

\* the contiguity test of harvest_bins (lib.rs:298-306)
Contiguous(bin_ids) ==
  (Max(Range(bin_ids)) - Min(Range(bin_ids)) + 1) = Len(bin_ids)

\* a variant that opens the fallback one slot early
BotStale_Inclusive(slot, last_bot_slot, priority_slots) ==
  slot - last_bot_slot >= priority_slots

\* the permissionless fallback is open (lib.rs:318-321)
BotStale(slot, last_bot_slot, priority_slots) ==
  slot - last_bot_slot > priority_slots

\* ------------------------------------------------------ program: setup
Initialize(signer, bot, fee_bps) ==
  /\ ~config.initialized
  /\ IF fee_bps > 1000
     THEN /\ UNCHANGED monke /\ result' = Rejected("initialize", "FeeTooHigh")
          /\ UNCHANGED <<clock, ledger>>
     ELSE /\ config' = [NoConfig EXCEPT !.initialized = TRUE, !.authority = signer,
                                        !.bot = bot, !.fee_bps = fee_bps,
                                        !.keeper_tip_bps = 1000, !.priority_slots = 100]
          /\ UNCHANGED monke /\ result' = [NoResult EXCEPT !.op = "initialize", !.signer = signer]
          /\ UNCHANGED <<clock, rover_authority, position, vault, vault_token, lb_pair, meteora, wallets>>

InitializeRover(signer, revenue_dest) ==
  /\ config.initialized
  /\ ~rover_authority.initialized
  /\ IF signer # config.authority
     THEN /\ UNCHANGED monke /\ result' = Rejected("initialize_rover", "Unauthorized")
          /\ UNCHANGED <<clock, ledger>>
     ELSE IF revenue_dest = DefaultPubkey
     THEN /\ UNCHANGED monke /\ result' = Rejected("initialize_rover", "InvalidDistPool")
          /\ UNCHANGED <<clock, ledger>>
     ELSE /\ rover_authority' = [NoRoverAuthority EXCEPT !.initialized = TRUE,
                                                         !.revenue_dest = revenue_dest]
          /\ UNCHANGED monke /\ result' = [NoResult EXCEPT !.op = "initialize_rover", !.signer = signer]
          /\ UNCHANGED <<clock, config, position, vault, vault_token, lb_pair, meteora, wallets>>

\* ------------------------------------------------------ program: open
\* the model follows MaxOpens opens from a fresh program; counters that start
\* at the top of their word stop by saturating
OpensLeft ==
  config.total_positions < MaxOpens \/ config.total_positions >= MaxWord - MaxOpens

\* a variant without the pause gate
OpenPositionV2Error_NoPauseCheck(user, p, amount, min_bin_id, max_bin_id, max_active_bin_slippage) ==
  LET active_id == lb_pair.active_id
      side == DeriveSide(min_bin_id, active_id, "Buy")
  IN IF position[p].initialized \/ vault[p].initialized THEN "AccountAlreadyInUse"
     ELSE IF ~(amount > 0) THEN "ZeroAmount"
     ELSE IF ~(amount >= MIN_POSITION_AMOUNT) THEN "PositionTooSmall"
     ELSE IF ~(max_active_bin_slippage >= 0 /\ max_active_bin_slippage <= 20) THEN "InvalidSlippage"
     ELSE IF ~(min_bin_id <= max_bin_id) THEN "InvalidBinRange"
     ELSE IF ~(max_bin_id - min_bin_id + 1 <= MAX_POSITION_WIDTH) THEN "PositionTooWide"
     ELSE IF meteora[p].exists THEN "MeteoraError"
     ELSE IF ~CanAddLiquidity(IF side = "Sell" THEN amount ELSE 0,
                              IF side = "Sell" THEN 0 ELSE amount,
                              active_id, min_bin_id, max_bin_id) THEN "MeteoraError"
     ELSE ""

OpenPositionV2Error(user, p, amount, min_bin_id, max_bin_id, max_active_bin_slippage) ==
  LET active_id == lb_pair.active_id
      side == DeriveSide(min_bin_id, active_id, "Buy")
  IN IF position[p].initialized \/ vault[p].initialized THEN "AccountAlreadyInUse"
     ELSE IF config.paused THEN "Paused"
     ELSE IF ~(amount > 0) THEN "ZeroAmount"
     ELSE IF ~(amount >= MIN_POSITION_AMOUNT) THEN "PositionTooSmall"
     ELSE IF ~(max_active_bin_slippage >= 0 /\ max_active_bin_slippage <= 20) THEN "InvalidSlippage"
     ELSE IF ~(min_bin_id <= max_bin_id) THEN "InvalidBinRange"
     ELSE IF ~(max_bin_id - min_bin_id + 1 <= MAX_POSITION_WIDTH) THEN "PositionTooWide"
     ELSE IF ~(active_id > -443636 /\ active_id < 443636) THEN "InvalidBinRange"
     ELSE IF meteora[p].exists THEN "MeteoraError"
     ELSE IF ~CanAddLiquidity(IF side = "Sell" THEN amount ELSE 0,
                              IF side = "Sell" THEN 0 ELSE amount,
                              active_id, min_bin_id, max_bin_id) THEN "MeteoraError"
     ELSE ""

OpenPositionV2(user, p, amount, min_bin_id, max_bin_id, side_arg, max_active_bin_slippage) ==
  /\ config.initialized
  /\ OpensLeft
  /\ LET err == OpenPositionV2Error(user, p, amount, min_bin_id, max_bin_id, max_active_bin_slippage)
         active_id == lb_pair.active_id
         side == DeriveSide(min_bin_id, active_id, side_arg)
         amount_x == IF side = "Sell" THEN amount ELSE 0
         amount_y == IF side = "Sell" THEN 0 ELSE amount
     IN IF err # ""
        THEN /\ UNCHANGED monke /\ result' = Rejected("open_position_v2", err)
             /\ UNCHANGED <<clock, ledger>>
        ELSE /\ meteora' = [meteora EXCEPT ![p] =
                              AddLiquidity(amount_x, amount_y, active_id, min_bin_id, max_bin_id)]
             /\ position' = [position EXCEPT ![p] =
                  [initialized |-> TRUE, owner |-> user, meteora_position |-> p, side |-> side,
                   min_bin_id |-> min_bin_id, max_bin_id |-> max_bin_id,
                   initial_amount |-> amount, harvested_amount |-> 0,
                   created_at |-> clock.unix_timestamp]]
             /\ vault' = [vault EXCEPT ![p] = [initialized |-> TRUE, position |-> p]]
             /\ config' = [config EXCEPT !.total_positions = SaturatingAdd(@, 1),
                                         !.total_volume = SaturatingAdd(@, amount)]
             /\ UNCHANGED monke /\ result' = [NoResult EXCEPT !.op = "open_position_v2", !.signer = user,
                             !.position = p, !.side = side, !.side_arg = side_arg,
                             !.min_bin_id = min_bin_id, !.max_bin_id = max_bin_id,
                             !.deposit_x = amount_x, !.deposit_y = amount_y]
             /\ UNCHANGED <<clock, rover_authority, vault_token, lb_pair, wallets>>

\* ------------------------------------------------------ program: harvest
\* token accounts passed as remaining_accounts[0] to receive the keeper tip
KeeperAtas == {NoAta, [key |-> "keeper_ata_x", mint |-> "X"],
               [key |-> "keeper_ata_y", mint |-> "Y"],
               [key |-> "rover_fee_token_x", mint |-> "X"]}
ProtectedAtaKeys == {"rover_fee_token_x", "rover_fee_token_y", "owner_token_x", "owner_token_y"}

\* a variant that tips every caller, the bot included
TipOf_AnyCaller(fee, is_authorized_bot, keeper_tip_bps) ==
  IF keeper_tip_bps > 0 THEN FeeOf(fee, keeper_tip_bps) ELSE 0

\* keeper tip on one side (lib.rs:386-397)
TipOf(fee, is_authorized_bot, keeper_tip_bps) ==
  IF ~is_authorized_bot /\ keeper_tip_bps > 0 THEN FeeOf(fee, keeper_tip_bps) ELSE 0

\* a variant that accepts the token accounts of any vault
VaultTokenOwnerOk_AnyVault(vault_token_owner, p) == vault_token_owner \in PositionKeys

\* the vault token accounts must belong to the vault of the position
\* (constraint vault_token_x.owner == vault.key(), lib.rs:2360-2364)
VaultTokenOwnerOk(vault_token_owner, p) == vault_token_owner = p

\* checks on the keeper's token account (lib.rs:406-437)
KeeperAtaOk(ata, x_tip) ==
  /\ ata # NoAta
  /\ ata.key \notin ProtectedAtaKeys
  /\ ata.mint = (IF x_tip > 0 THEN "X" ELSE "Y")

\* a variant that takes the fee from the vault's whole balance
HarvestAmounts_FeeOnBalance(side, fee_bps, keeper_tip_bps, is_authorized_bot, x_before, y_before, x_after, y_after) ==
  LET x_received == IF x_after >= x_before THEN x_after - x_before ELSE 0
      y_received == IF y_after >= y_before THEN y_after - y_before ELSE 0
      x_fee == IF side = "Buy" THEN FeeOf(x_after, fee_bps) ELSE 0
      y_fee == IF side = "Sell" THEN FeeOf(y_after, fee_bps) ELSE 0
      x_tip == TipOf(x_fee, is_authorized_bot, keeper_tip_bps)
      y_tip == TipOf(y_fee, is_authorized_bot, keeper_tip_bps)
  IN [x_before |-> x_before, y_before |-> y_before,
      x_received |-> x_received, y_received |-> y_received,
      x_fee |-> x_fee, y_fee |-> y_fee, x_tip |-> x_tip, y_tip |-> y_tip,
      x_to_protocol |-> x_fee - x_tip, y_to_protocol |-> y_fee - y_tip,
      x_to_owner |-> x_after - x_fee, y_to_owner |-> y_after - y_fee]

\* a variant that pays the tip on top of the fee, out of the owner's share
HarvestAmounts_TipOnTop(side, fee_bps, keeper_tip_bps, is_authorized_bot, x_before, y_before, x_after, y_after) ==
  LET x_received == IF x_after >= x_before THEN x_after - x_before ELSE 0
      y_received == IF y_after >= y_before THEN y_after - y_before ELSE 0
      x_fee == IF side = "Buy" THEN FeeOf(x_received, fee_bps) ELSE 0
      y_fee == IF side = "Sell" THEN FeeOf(y_received, fee_bps) ELSE 0
      x_tip == TipOf(x_fee, is_authorized_bot, keeper_tip_bps)
      y_tip == TipOf(y_fee, is_authorized_bot, keeper_tip_bps)
  IN [x_before |-> x_before, y_before |-> y_before,
      x_received |-> x_received, y_received |-> y_received,
      x_fee |-> x_fee, y_fee |-> y_fee, x_tip |-> x_tip, y_tip |-> y_tip,
      x_to_protocol |-> x_fee, y_to_protocol |-> y_fee,
      x_to_owner |-> x_after - x_fee - x_tip, y_to_owner |-> y_after - y_fee - y_tip]

\* the amounts of one harvest, from the vault balances around the removal
\* a variant that pays the owner the converted delta only
HarvestAmounts_OwnerGetsDelta(side, fee_bps, keeper_tip_bps, is_authorized_bot, x_before, y_before, x_after, y_after) ==
  LET x_received == IF x_after >= x_before THEN x_after - x_before ELSE 0
      y_received == IF y_after >= y_before THEN y_after - y_before ELSE 0
      x_fee == IF side = "Buy" THEN FeeOf(x_received, fee_bps) ELSE 0
      y_fee == IF side = "Sell" THEN FeeOf(y_received, fee_bps) ELSE 0
      x_tip == TipOf(x_fee, is_authorized_bot, keeper_tip_bps)
      y_tip == TipOf(y_fee, is_authorized_bot, keeper_tip_bps)
  IN [x_before |-> x_before, y_before |-> y_before,
      x_received |-> x_received, y_received |-> y_received,
      x_fee |-> x_fee, y_fee |-> y_fee, x_tip |-> x_tip, y_tip |-> y_tip,
      x_to_protocol |-> x_fee - x_tip, y_to_protocol |-> y_fee - y_tip,
      x_to_owner |-> x_received - x_fee, y_to_owner |-> y_received - y_fee]

HarvestAmounts(side, fee_bps, keeper_tip_bps, is_authorized_bot, x_before, y_before, x_after, y_after) ==
  LET x_received == IF x_after >= x_before THEN x_after - x_before ELSE 0
      y_received == IF y_after >= y_before THEN y_after - y_before ELSE 0
      x_fee == IF side = "Buy" THEN FeeOf(x_received, fee_bps) ELSE 0
      y_fee == IF side = "Sell" THEN FeeOf(y_received, fee_bps) ELSE 0
      x_tip == TipOf(x_fee, is_authorized_bot, keeper_tip_bps)
      y_tip == TipOf(y_fee, is_authorized_bot, keeper_tip_bps)
  IN [x_before |-> x_before, y_before |-> y_before,
      x_received |-> x_received, y_received |-> y_received,
      x_fee |-> x_fee, y_fee |-> y_fee, x_tip |-> x_tip, y_tip |-> y_tip,
      x_to_protocol |-> x_fee - x_tip, y_to_protocol |-> y_fee - y_tip,
      x_to_owner |-> x_after - x_fee, y_to_owner |-> y_after - y_fee]

\* a variant that counts the converted delta before the fee is taken
Harvested_BeforeFee(side, a) ==
  IF side = "Buy" THEN a.x_received ELSE a.y_received

\* what a harvest adds to position.harvested_amount and config.total_harvested
Harvested(side, a) ==
  IF side = "Buy" THEN a.x_to_owner ELSE a.y_to_owner

\* a variant that asks for the tip account whatever the tip
HarvestBinsError_TipAccountAlways(cfg, signer, p, bin_ids, accts) ==
  LET pos == position[p]
      is_authorized_bot == signer = cfg.bot
      from_bin == Min(Range(bin_ids))
      to_bin == Max(Range(bin_ids))
      vt == vault_token[accts.vault_token]
      a == HarvestAmounts(pos.side, cfg.fee_bps, cfg.keeper_tip_bps, is_authorized_bot,
                          vt.x, vt.y,
                          vt.x + RemovedX(meteora[p], from_bin, to_bin),
                          vt.y + RemovedY(meteora[p], from_bin, to_bin))
  IN IF ~pos.initialized \/ ~vault[p].initialized THEN "AccountNotInitialized"
     ELSE IF ~VaultTokenOwnerOk(accts.vault_token, p) THEN "InvalidTokenOwner"
     ELSE IF bin_ids = <<>> THEN "NoBinsProvided"
     ELSE IF ~(Len(bin_ids) <= 70) THEN "TooManyBins"
     ELSE IF \E i \in 1 .. Len(bin_ids) :
               ~(bin_ids[i] >= pos.min_bin_id /\ bin_ids[i] <= pos.max_bin_id)
          THEN "BinOutOfPositionRange"
     ELSE IF ~Contiguous(bin_ids) THEN "NonContiguousBins"
     ELSE IF ~is_authorized_bot /\ clock.slot < cfg.last_bot_harvest_slot THEN "Overflow"
     ELSE IF ~is_authorized_bot
             /\ ~BotStale(clock.slot, cfg.last_bot_harvest_slot, cfg.priority_slots)
          THEN "BotNotStale"
     ELSE IF ~meteora[p].exists THEN "MeteoraError"
     ELSE IF a.x_fee < a.x_tip \/ a.y_fee < a.y_tip THEN "Overflow"
     ELSE IF a.x_to_owner < 0 \/ a.y_to_owner < 0 THEN "Overflow"
     ELSE IF ~KeeperAtaOk(accts.keeper_ata, a.x_tip)
          THEN "MissingKeeperAta"
     ELSE IF CheckedAddOverflows(pos.harvested_amount, Harvested(pos.side, a))
             \/ CheckedAddOverflows(cfg.total_harvested, Harvested(pos.side, a))
          THEN "Overflow"
     ELSE ""

HarvestBinsError(cfg, signer, p, bin_ids, accts) ==
  LET pos == position[p]
      is_authorized_bot == signer = cfg.bot
      from_bin == Min(Range(bin_ids))
      to_bin == Max(Range(bin_ids))
      vt == vault_token[accts.vault_token]
      a == HarvestAmounts(pos.side, cfg.fee_bps, cfg.keeper_tip_bps, is_authorized_bot,
                          vt.x, vt.y,
                          vt.x + RemovedX(meteora[p], from_bin, to_bin),
                          vt.y + RemovedY(meteora[p], from_bin, to_bin))
  IN IF ~pos.initialized \/ ~vault[p].initialized THEN "AccountNotInitialized"
     ELSE IF ~VaultTokenOwnerOk(accts.vault_token, p) THEN "InvalidTokenOwner"
     ELSE IF bin_ids = <<>> THEN "NoBinsProvided"
     ELSE IF ~(Len(bin_ids) <= 70) THEN "TooManyBins"
     ELSE IF \E i \in 1 .. Len(bin_ids) :
               ~(bin_ids[i] >= pos.min_bin_id /\ bin_ids[i] <= pos.max_bin_id)
          THEN "BinOutOfPositionRange"
     ELSE IF ~Contiguous(bin_ids) THEN "NonContiguousBins"
     ELSE IF ~is_authorized_bot /\ clock.slot < cfg.last_bot_harvest_slot THEN "Overflow"
     ELSE IF ~is_authorized_bot
             /\ ~BotStale(clock.slot, cfg.last_bot_harvest_slot, cfg.priority_slots)
          THEN "BotNotStale"
     ELSE IF ~meteora[p].exists THEN "MeteoraError"
     ELSE IF a.x_fee < a.x_tip \/ a.y_fee < a.y_tip THEN "Overflow"
     ELSE IF a.x_to_owner < 0 \/ a.y_to_owner < 0 THEN "Overflow"
     ELSE IF (a.x_tip > 0 \/ a.y_tip > 0) /\ ~KeeperAtaOk(accts.keeper_ata, a.x_tip)
          THEN "MissingKeeperAta"
     ELSE IF CheckedAddOverflows(pos.harvested_amount, Harvested(pos.side, a))
             \/ CheckedAddOverflows(cfg.total_harvested, Harvested(pos.side, a))
          THEN "Overflow"
     ELSE ""

\* a variant with one heartbeat for harvest and close
HarvestBinsOk_OneHeartbeat(cfg, signer, p, bin_ids, accts) ==
  LET pos == position[p]
      q == accts.vault_token
      is_authorized_bot == signer = cfg.bot
      from_bin == Min(Range(bin_ids))
      to_bin == Max(Range(bin_ids))
      a == HarvestAmounts(pos.side, cfg.fee_bps, cfg.keeper_tip_bps, is_authorized_bot,
                          vault_token[q].x, vault_token[q].y,
                          vault_token[q].x + RemovedX(meteora[p], from_bin, to_bin),
                          vault_token[q].y + RemovedY(meteora[p], from_bin, to_bin))
      harvested == Harvested(pos.side, a)
  IN [meteora |-> [meteora EXCEPT ![p] = RemoveLiquidityByRange(@, from_bin, to_bin)],
      vault_token |-> [vault_token EXCEPT ![q] =
         [x |-> a.x_before + a.x_received - a.x_tip - a.x_to_protocol - a.x_to_owner,
          y |-> a.y_before + a.y_received - a.y_tip - a.y_to_protocol - a.y_to_owner]],
      position |-> [position EXCEPT ![p].harvested_amount = @ + harvested],
      config |-> [cfg EXCEPT
         !.last_bot_harvest_slot = IF is_authorized_bot THEN clock.slot ELSE @,
         !.last_bot_close_slot = IF is_authorized_bot THEN clock.slot ELSE @,
         !.total_harvested = @ + harvested],
      result |-> [NoResult EXCEPT !.op = "harvest_bins", !.signer = signer,
         !.position = p, !.bin_ids = bin_ids, !.side = pos.side,
         !.is_authorized_bot = is_authorized_bot, !.from_vault = q,
         !.recipient = pos.owner, !.keeper_ata = accts.keeper_ata,
         !.x_before = a.x_before, !.y_before = a.y_before,
         !.x_received = a.x_received, !.y_received = a.y_received,
         !.x_fee = a.x_fee, !.y_fee = a.y_fee, !.x_tip = a.x_tip, !.y_tip = a.y_tip,
         !.x_to_protocol = a.x_to_protocol, !.y_to_protocol = a.y_to_protocol,
         !.x_to_owner = a.x_to_owner, !.y_to_owner = a.y_to_owner]]

\* a variant that records the caller as the owner
HarvestBinsOk_CallerBecomesOwner(cfg, signer, p, bin_ids, accts) ==
  LET pos == position[p]
      q == accts.vault_token
      is_authorized_bot == signer = cfg.bot
      from_bin == Min(Range(bin_ids))
      to_bin == Max(Range(bin_ids))
      a == HarvestAmounts(pos.side, cfg.fee_bps, cfg.keeper_tip_bps, is_authorized_bot,
                          vault_token[q].x, vault_token[q].y,
                          vault_token[q].x + RemovedX(meteora[p], from_bin, to_bin),
                          vault_token[q].y + RemovedY(meteora[p], from_bin, to_bin))
      harvested == Harvested(pos.side, a)
  IN [meteora |-> [meteora EXCEPT ![p] = RemoveLiquidityByRange(@, from_bin, to_bin)],
      vault_token |-> [vault_token EXCEPT ![q] =
         [x |-> a.x_before + a.x_received - a.x_tip - a.x_to_protocol - a.x_to_owner,
          y |-> a.y_before + a.y_received - a.y_tip - a.y_to_protocol - a.y_to_owner]],
      position |-> [position EXCEPT ![p].harvested_amount = @ + harvested,
                                    ![p].owner = signer],
      config |-> [cfg EXCEPT
         !.last_bot_harvest_slot = IF is_authorized_bot THEN clock.slot ELSE @,
         !.total_harvested = @ + harvested],
      result |-> [NoResult EXCEPT !.op = "harvest_bins", !.signer = signer,
         !.position = p, !.bin_ids = bin_ids, !.side = pos.side,
         !.is_authorized_bot = is_authorized_bot, !.from_vault = q,
         !.recipient = pos.owner, !.keeper_ata = accts.keeper_ata,
         !.x_before = a.x_before, !.y_before = a.y_before,
         !.x_received = a.x_received, !.y_received = a.y_received,
         !.x_fee = a.x_fee, !.y_fee = a.y_fee, !.x_tip = a.x_tip, !.y_tip = a.y_tip,
         !.x_to_protocol = a.x_to_protocol, !.y_to_protocol = a.y_to_protocol,
         !.x_to_owner = a.x_to_owner, !.y_to_owner = a.y_to_owner]]

\* what a harvest that passes every check writes
HarvestBinsOk(cfg, signer, p, bin_ids, accts) ==
  LET pos == position[p]
      q == accts.vault_token
      is_authorized_bot == signer = cfg.bot
      from_bin == Min(Range(bin_ids))
      to_bin == Max(Range(bin_ids))
      a == HarvestAmounts(pos.side, cfg.fee_bps, cfg.keeper_tip_bps, is_authorized_bot,
                          vault_token[q].x, vault_token[q].y,
                          vault_token[q].x + RemovedX(meteora[p], from_bin, to_bin),
                          vault_token[q].y + RemovedY(meteora[p], from_bin, to_bin))
      harvested == Harvested(pos.side, a)
  IN [meteora |-> [meteora EXCEPT ![p] = RemoveLiquidityByRange(@, from_bin, to_bin)],
      vault_token |-> [vault_token EXCEPT ![q] =
         [x |-> a.x_before + a.x_received - a.x_tip - a.x_to_protocol - a.x_to_owner,
          y |-> a.y_before + a.y_received - a.y_tip - a.y_to_protocol - a.y_to_owner]],
      position |-> [position EXCEPT ![p].harvested_amount = @ + harvested],
      config |-> [cfg EXCEPT
         !.last_bot_harvest_slot = IF is_authorized_bot THEN clock.slot ELSE @,
         !.total_harvested = @ + harvested],
      result |-> [NoResult EXCEPT !.op = "harvest_bins", !.signer = signer,
         !.position = p, !.bin_ids = bin_ids, !.side = pos.side,
         !.is_authorized_bot = is_authorized_bot, !.from_vault = q,
         !.recipient = pos.owner, !.keeper_ata = accts.keeper_ata,
         !.x_before = a.x_before, !.y_before = a.y_before,
         !.x_received = a.x_received, !.y_received = a.y_received,
         !.x_fee = a.x_fee, !.y_fee = a.y_fee, !.x_tip = a.x_tip, !.y_tip = a.y_tip,
         !.x_to_protocol = a.x_to_protocol, !.y_to_protocol = a.y_to_protocol,
         !.x_to_owner = a.x_to_owner, !.y_to_owner = a.y_to_owner]]

HarvestBins(signer, p, bin_ids, accts) ==
  /\ config.initialized
  /\ rover_authority.initialized
  /\ LET err == HarvestBinsError(config, signer, p, bin_ids, accts)
         ok == HarvestBinsOk(config, signer, p, bin_ids, accts)
     IN IF err # ""
        THEN /\ UNCHANGED monke /\ result' = Rejected("harvest_bins", err)
             /\ UNCHANGED <<clock, ledger>>
        ELSE /\ meteora' = ok.meteora
             /\ vault_token' = ok.vault_token
             /\ position' = ok.position
             /\ config' = ok.config
             /\ UNCHANGED monke /\ result' = ok.result
             /\ UNCHANGED <<clock, rover_authority, vault, lb_pair, wallets>>

\* ------------------------------------------------------ program: close
\* a variant that takes the fee from both tokens
CloseAmounts_BothSides(side, fee_bps, vault_x_balance, vault_y_balance) ==
  LET x_fee == FeeOf(vault_x_balance, fee_bps)
      y_fee == FeeOf(vault_y_balance, fee_bps)
  IN [x_fee |-> x_fee, y_fee |-> y_fee,
      x_to_recipient |-> vault_x_balance - x_fee,
      y_to_recipient |-> vault_y_balance - y_fee]

\* fee and payout of close_position / user_close from the full vault balance
CloseAmounts(side, fee_bps, vault_x_balance, vault_y_balance) ==
  LET x_fee == IF side = "Buy" THEN FeeOf(vault_x_balance, fee_bps) ELSE 0
      y_fee == IF side = "Sell" THEN FeeOf(vault_y_balance, fee_bps) ELSE 0
  IN [x_fee |-> x_fee, y_fee |-> y_fee,
      x_to_recipient |-> vault_x_balance - x_fee,
      y_to_recipient |-> vault_y_balance - y_fee]

\* the vault balances after remove_liquidity_by_range2 over the whole range and
\* claim_fee2
CloseBalances(p, accts) ==
  LET pos == position[p]
      mp == meteora[p]
      q == accts.vault_token
      x_received == RemovedX(mp, pos.min_bin_id, pos.max_bin_id) + mp.fee_x
      y_received == RemovedY(mp, pos.min_bin_id, pos.max_bin_id) + mp.fee_y
  IN [x_received |-> x_received, y_received |-> y_received,
      x |-> vault_token[q].x + x_received, y |-> vault_token[q].y + y_received]

\* execute_close_transfers fails when a checked subtraction does
CloseOverflows(cfg, p, accts) ==
  LET b == CloseBalances(p, accts)
      a == CloseAmounts(position[p].side, cfg.fee_bps, b.x, b.y)
  IN \/ a.x_to_recipient < 0 \/ a.y_to_recipient < 0
     \/ CheckedAddOverflows(cfg.total_harvested,
                            IF position[p].side = "Buy" THEN a.x_to_recipient
                            ELSE a.y_to_recipient)

\* remove all liquidity, claim the swap fees, close the Meteora position and
\* split the vault balance; the Position and Vault accounts are closed
CloseOk(cfg, op, signer, p, accts) ==
  LET pos == position[p]
      q == accts.vault_token
      is_authorized_bot == op = "close_position" /\ signer = cfg.bot
      b == CloseBalances(p, accts)
      a == CloseAmounts(pos.side, cfg.fee_bps, b.x, b.y)
      close_harvested == IF pos.side = "Buy" THEN a.x_to_recipient ELSE a.y_to_recipient
  IN [meteora |-> [meteora EXCEPT ![p] = NoMeteoraPosition],
      vault_token |-> [vault_token EXCEPT ![q] =
         [x |-> b.x - a.x_fee - a.x_to_recipient,
          y |-> b.y - a.y_fee - a.y_to_recipient]],
      position |-> [position EXCEPT ![p] = NoPosition],
      vault |-> [vault EXCEPT ![p] = NoVault],
      config |-> [cfg EXCEPT
         !.last_bot_close_slot = IF is_authorized_bot THEN clock.slot ELSE @,
         !.total_harvested = @ + close_harvested],
      result |-> [NoResult EXCEPT !.op = op, !.signer = signer, !.position = p,
         !.side = pos.side, !.is_authorized_bot = is_authorized_bot, !.from_vault = q,
         !.recipient = pos.owner,
         !.x_before = vault_token[q].x, !.y_before = vault_token[q].y,
         !.x_received = b.x_received, !.y_received = b.y_received,
         !.x_fee = a.x_fee, !.y_fee = a.y_fee,
         !.x_to_protocol = a.x_fee, !.y_to_protocol = a.y_fee,
         !.x_to_owner = a.x_to_recipient, !.y_to_owner = a.y_to_recipient]]

\* a variant that leaves the Position and Vault accounts open
CloseCommit_KeepsAccounts(ok) ==
  /\ meteora' = ok.meteora
  /\ vault_token' = ok.vault_token
  /\ config' = ok.config
  /\ UNCHANGED monke /\ result' = ok.result
  /\ UNCHANGED <<clock, rover_authority, lb_pair, wallets, position, vault>>

CloseCommit(ok) ==
  /\ meteora' = ok.meteora
  /\ vault_token' = ok.vault_token
  /\ position' = ok.position
  /\ vault' = ok.vault
  /\ config' = ok.config
  /\ UNCHANGED monke /\ result' = ok.result
  /\ UNCHANGED <<clock, rover_authority, lb_pair, wallets>>

\* a variant in which bot_paused turns every caller away
ClosePositionError_PauseBlocksAll(cfg, signer, p, accts) ==
  LET is_authorized_bot == signer = cfg.bot
  IN IF ~position[p].initialized \/ ~vault[p].initialized THEN "AccountNotInitialized"
     ELSE IF ~VaultTokenOwnerOk(accts.vault_token, p) THEN "InvalidTokenOwner"
     ELSE IF cfg.bot_paused THEN "BotPaused"
     ELSE IF ~is_authorized_bot /\ clock.slot < cfg.last_bot_close_slot THEN "Overflow"
     ELSE IF ~is_authorized_bot
             /\ ~BotStale(clock.slot, cfg.last_bot_close_slot, cfg.priority_slots)
          THEN "BotNotStale"
     ELSE IF ~meteora[p].exists THEN "MeteoraError"
     ELSE IF CloseOverflows(cfg, p, accts) THEN "Overflow"
     ELSE ""

\* a variant in which the bot's close ignores bot_paused
ClosePositionError_NoBotPause(cfg, signer, p, accts) ==
  LET is_authorized_bot == signer = cfg.bot
  IN IF ~position[p].initialized \/ ~vault[p].initialized THEN "AccountNotInitialized"
     ELSE IF ~VaultTokenOwnerOk(accts.vault_token, p) THEN "InvalidTokenOwner"
     ELSE IF ~is_authorized_bot /\ clock.slot < cfg.last_bot_close_slot THEN "Overflow"
     ELSE IF ~is_authorized_bot
             /\ ~BotStale(clock.slot, cfg.last_bot_close_slot, cfg.priority_slots)
          THEN "BotNotStale"
     ELSE IF ~meteora[p].exists THEN "MeteoraError"
     ELSE IF CloseOverflows(cfg, p, accts) THEN "Overflow"
     ELSE ""

ClosePositionError(cfg, signer, p, accts) ==
  LET is_authorized_bot == signer = cfg.bot
  IN IF ~position[p].initialized \/ ~vault[p].initialized THEN "AccountNotInitialized"
     ELSE IF ~VaultTokenOwnerOk(accts.vault_token, p) THEN "InvalidTokenOwner"
     ELSE IF is_authorized_bot /\ cfg.bot_paused THEN "BotPaused"
     ELSE IF ~is_authorized_bot /\ clock.slot < cfg.last_bot_close_slot THEN "Overflow"
     ELSE IF ~is_authorized_bot
             /\ ~BotStale(clock.slot, cfg.last_bot_close_slot, cfg.priority_slots)
          THEN "BotNotStale"
     ELSE IF ~meteora[p].exists THEN "MeteoraError"
     ELSE IF CloseOverflows(cfg, p, accts) THEN "Overflow"
     ELSE ""

ClosePosition(signer, p, accts) ==
  /\ config.initialized
  /\ rover_authority.initialized
  /\ LET err == ClosePositionError(config, signer, p, accts)
     IN IF err # ""
        THEN /\ UNCHANGED monke /\ result' = Rejected("close_position", err)
             /\ UNCHANGED <<clock, ledger>>
        ELSE CloseCommit(CloseOk(config, "close_position", signer, p, accts))

\* a variant without the owner constraint
UserCloseError_AnySigner(cfg, signer, p, accts) ==
  IF ~position[p].initialized \/ ~vault[p].initialized THEN "AccountNotInitialized"
  ELSE IF ~VaultTokenOwnerOk(accts.vault_token, p) THEN "InvalidTokenOwner"
  ELSE IF ~meteora[p].exists THEN "MeteoraError"
  ELSE IF CloseOverflows(cfg, p, accts) THEN "Overflow"
  ELSE ""

UserCloseError(cfg, signer, p, accts) ==
  IF ~position[p].initialized \/ ~vault[p].initialized THEN "AccountNotInitialized"
  ELSE IF ~(position[p].owner = signer) THEN "Unauthorized"
  ELSE IF ~VaultTokenOwnerOk(accts.vault_token, p) THEN "InvalidTokenOwner"
  ELSE IF ~meteora[p].exists THEN "MeteoraError"
  ELSE IF CloseOverflows(cfg, p, accts) THEN "Overflow"
  ELSE ""

UserClose(signer, p, accts) ==
  /\ config.initialized
  /\ rover_authority.initialized
  /\ LET err == UserCloseError(config, signer, p, accts)
     IN IF err # ""
        THEN /\ UNCHANGED monke /\ result' = Rejected("user_close", err)
             /\ UNCHANGED <<clock, ledger>>
        ELSE CloseCommit(CloseOk(config, "user_close", signer, p, accts))

\* ------------------------------------------------------ program: claim_fees
\* a variant without the owner constraint
ClaimFeesError_AnySigner(signer, p, accts) ==
  IF ~position[p].initialized \/ ~vault[p].initialized THEN "AccountNotInitialized"
  ELSE IF ~VaultTokenOwnerOk(accts.vault_token, p) THEN "InvalidTokenOwner"
  ELSE IF ~meteora[p].exists THEN "MeteoraError"
  ELSE ""

ClaimFeesError(signer, p, accts) ==
  IF ~position[p].initialized \/ ~vault[p].initialized THEN "AccountNotInitialized"
  ELSE IF ~(position[p].owner = signer) THEN "Unauthorized"
  ELSE IF ~VaultTokenOwnerOk(accts.vault_token, p) THEN "InvalidTokenOwner"
  ELSE IF ~meteora[p].exists THEN "MeteoraError"
  ELSE ""

ClaimFees(signer, p, accts) ==
  /\ LET err == ClaimFeesError(signer, p, accts)
         q == accts.vault_token
         x_claimed == vault_token[q].x + meteora[p].fee_x
         y_claimed == vault_token[q].y + meteora[p].fee_y
     IN IF err # ""
        THEN /\ UNCHANGED monke /\ result' = Rejected("claim_fees", err)
             /\ UNCHANGED <<clock, ledger>>
        ELSE /\ meteora' = [meteora EXCEPT ![p] = ClaimFee(@)]
             /\ vault_token' = [vault_token EXCEPT ![q] = [x |-> 0, y |-> 0]]
             /\ UNCHANGED monke /\ result' = [NoResult EXCEPT !.op = "claim_fees", !.signer = signer,
                  !.position = p, !.side = position[p].side, !.from_vault = q,
                  !.recipient = signer,
                  !.x_before = vault_token[q].x, !.y_before = vault_token[q].y,
                  !.x_received = meteora[p].fee_x, !.y_received = meteora[p].fee_y,
                  !.x_to_owner = x_claimed, !.y_to_owner = y_claimed]
             /\ UNCHANGED <<clock, config, rover_authority, position, vault, lb_pair, wallets>>

\* ------------------------------------------------------ program: admin
\* an AdminOnly instruction that writes the config (lib.rs:2580-2587)
AdminOnly(op, signer, new_config) ==
  /\ config.initialized
  /\ IF signer # config.authority
     THEN /\ UNCHANGED monke /\ result' = Rejected(op, "Unauthorized")
          /\ UNCHANGED <<clock, ledger>>
     ELSE /\ config' = new_config
          /\ UNCHANGED monke /\ result' = [NoResult EXCEPT !.op = op, !.signer = signer]
          /\ UNCHANGED <<clock, rover_authority, position, vault, vault_token, lb_pair, meteora, wallets>>

Pause(signer) == AdminOnly("pause", signer, [config EXCEPT !.paused = TRUE])

Unpause(signer) == AdminOnly("unpause", signer, [config EXCEPT !.paused = FALSE])

\* bot_pause / bot_unpause (lib.rs:944-964)
BotPause(signer) == AdminOnly("bot_pause", signer, [config EXCEPT !.bot_paused = TRUE])

BotUnpause(signer) == AdminOnly("bot_unpause", signer, [config EXCEPT !.bot_paused = FALSE])

\* update_bot (lib.rs:966-974)
UpdateBot(signer, new_bot) ==
  /\ AdminOnly("update_bot", signer, [config EXCEPT !.bot = new_bot])

\* a variant without the cap on the staleness threshold
UpdatePrioritySlots_NoCap(signer, new_slots) ==
  /\ config.initialized
  /\ IF signer # config.authority
     THEN /\ UNCHANGED monke /\ result' = Rejected("update_priority_slots", "Unauthorized")
          /\ UNCHANGED <<clock, ledger>>
     ELSE /\ config' = [config EXCEPT !.priority_slots = new_slots]
          /\ UNCHANGED monke /\ result' = [NoResult EXCEPT !.op = "update_priority_slots", !.signer = signer,
                                        !.value = new_slots]
          /\ UNCHANGED <<clock, rover_authority, position, vault, vault_token, lb_pair,
                         meteora, wallets>>

\* update_priority_slots (lib.rs:989-999)
UpdatePrioritySlots(signer, new_slots) ==
  /\ config.initialized
  /\ IF signer # config.authority
     THEN /\ UNCHANGED monke /\ result' = Rejected("update_priority_slots", "Unauthorized")
          /\ UNCHANGED <<clock, ledger>>
     ELSE IF ~(new_slots <= 9000)
     THEN /\ UNCHANGED monke /\ result' = Rejected("update_priority_slots", "PrioritySlotsExceedMax")
          /\ UNCHANGED <<clock, ledger>>
     ELSE /\ config' = [config EXCEPT !.priority_slots = new_slots]
          /\ UNCHANGED monke /\ result' = [NoResult EXCEPT !.op = "update_priority_slots", !.signer = signer,
                                        !.value = new_slots]
          /\ UNCHANGED <<clock, rover_authority, position, vault, vault_token, lb_pair,
                         meteora, wallets>>

\* ------------------------------------------- program: authority transfer
\* transfer_authority: the authority names a nominee (lib.rs:1056-1060)
TransferAuthority(signer, new_authority) ==
  /\ config.initialized
  /\ IF signer # config.authority
     THEN /\ UNCHANGED monke /\ result' = Rejected("transfer_authority", "Unauthorized")
          /\ UNCHANGED <<clock, ledger>>
     ELSE /\ config' = [config EXCEPT !.pending_authority = new_authority]
          /\ UNCHANGED monke /\ result' = [NoResult EXCEPT !.op = "transfer_authority", !.signer = signer,
                                        !.recipient = new_authority]
          /\ UNCHANGED <<clock, rover_authority, position, vault, vault_token, lb_pair,
                         meteora, wallets>>

\* a variant that lets any signer accept while a nominee is pending
AcceptAuthorityError_AnySigner(new_authority) ==
  IF ~(config.pending_authority # DefaultPubkey) THEN "NoPendingAuthority"
  ELSE ""

\* the constraints on new_authority (lib.rs:2659-2663)
AcceptAuthorityError(new_authority) ==
  IF ~(new_authority = config.pending_authority) THEN "Unauthorized"
  ELSE IF ~(config.pending_authority # DefaultPubkey) THEN "NoPendingAuthority"
  ELSE ""

\* accept_authority (lib.rs:1062-1068)
AcceptAuthority(new_authority) ==
  /\ config.initialized
  /\ IF AcceptAuthorityError(new_authority) # ""
     THEN /\ UNCHANGED monke /\ result' = Rejected("accept_authority", AcceptAuthorityError(new_authority))
          /\ UNCHANGED <<clock, ledger>>
     ELSE /\ config' = [config EXCEPT !.authority = config.pending_authority,
                                      !.pending_authority = DefaultPubkey]
          /\ UNCHANGED monke /\ result' = [NoResult EXCEPT !.op = "accept_authority", !.signer = new_authority]
          /\ UNCHANGED <<clock, rover_authority, position, vault, vault_token, lb_pair,
                         meteora, wallets>>

\* a variant without the cap on the tip rate
UpdateKeeperTipBps_NoCap(signer, new_bps) ==
  AdminOnly("update_keeper_tip_bps", signer, [config EXCEPT !.keeper_tip_bps = new_bps])

UpdateKeeperTipBps(signer, new_bps) ==
  /\ config.initialized
  /\ IF signer = config.authority /\ ~(new_bps <= 5000)
     THEN /\ UNCHANGED monke /\ result' = Rejected("update_keeper_tip_bps", "FeeTooHigh")
          /\ UNCHANGED <<clock, ledger>>
     ELSE AdminOnly("update_keeper_tip_bps", signer, [config EXCEPT !.keeper_tip_bps = new_bps])

\* ------------------------------------------------ program: fee timelock
\* a variant with a delay of one hour
TimelockEnd_OneHour(now) == now + 3600

\* when a change proposed now may be applied: 24 hours later
\* (lib.rs:1014-1016, 1077-1078, 1151-1152)
TimelockEnd(now) == now + 86400

\* a variant that lets a change through while its timelock runs
TimelockExpired_Always(now, change_at) == TRUE

\* the timelock of a pending change has run out (lib.rs:1031-1034)
TimelockExpired(now, change_at) == now >= change_at

ProposeFee(signer, new_fee_bps) ==
  /\ config.initialized
  /\ IF signer = config.authority /\ ~(new_fee_bps <= 1000)
     THEN /\ UNCHANGED monke /\ result' = Rejected("propose_fee", "FeeTooHigh")
          /\ UNCHANGED <<clock, ledger>>
     ELSE IF signer # config.authority
     THEN /\ UNCHANGED monke /\ result' = Rejected("propose_fee", "Unauthorized")
          /\ UNCHANGED <<clock, ledger>>
     ELSE /\ config' = [config EXCEPT !.pending_fee_bps = new_fee_bps,
                                      !.fee_change_at = TimelockEnd(clock.unix_timestamp)]
          /\ UNCHANGED monke /\ result' = [NoResult EXCEPT !.op = "propose_fee", !.signer = signer,
                                        !.value = new_fee_bps]
          /\ UNCHANGED <<clock, rover_authority, position, vault, vault_token, lb_pair,
                         meteora, wallets>>

ApplyFeeError ==
  IF ~(config.fee_change_at > 0) THEN "NoPendingFeeChange"
  ELSE IF ~TimelockExpired(clock.unix_timestamp, config.fee_change_at)
       THEN "FeeTimelockNotExpired"
  ELSE ""

ApplyFee(caller) ==
  /\ config.initialized
  /\ IF ApplyFeeError # ""
     THEN /\ UNCHANGED monke /\ result' = Rejected("apply_fee", ApplyFeeError)
          /\ UNCHANGED <<clock, ledger>>
     ELSE /\ config' = [config EXCEPT !.fee_bps = config.pending_fee_bps,
                                      !.pending_fee_bps = 0, !.fee_change_at = 0]
          /\ UNCHANGED monke /\ result' = [NoResult EXCEPT !.op = "apply_fee", !.signer = caller]
          /\ UNCHANGED <<clock, rover_authority, position, vault, vault_token, lb_pair,
                         meteora, wallets>>

\* a variant that clears the proposed rate and leaves the timelock running
CancelledFee_KeepsTimelock(cfg) == [cfg EXCEPT !.pending_fee_bps = 0]

\* what cancel_pending_fee writes (lib.rs:1050-1051)
CancelledFee(cfg) == [cfg EXCEPT !.pending_fee_bps = 0, !.fee_change_at = 0]

CancelPendingFee(signer) ==
  /\ config.initialized
  /\ IF signer = config.authority /\ ~(config.fee_change_at > 0)
     THEN /\ UNCHANGED monke /\ result' = Rejected("cancel_pending_fee", "NoPendingFeeChange")
          /\ UNCHANGED <<clock, ledger>>
     ELSE AdminOnly("cancel_pending_fee", signer, CancelledFee(config))

\* ------------------------------------------------ program: emergency close
ProposeEmergencyClose(signer, position_key) ==
  /\ config.initialized
  /\ IF signer # config.authority
     THEN /\ UNCHANGED monke /\ result' = Rejected("propose_emergency_close", "Unauthorized")
          /\ UNCHANGED <<clock, ledger>>
     ELSE /\ config' = [config EXCEPT !.pending_emergency_close = position_key,
                                      !.emergency_close_at = TimelockEnd(clock.unix_timestamp)]
          /\ UNCHANGED monke /\ result' = [NoResult EXCEPT !.op = "propose_emergency_close", !.signer = signer,
                                        !.position = position_key]
          /\ UNCHANGED <<clock, rover_authority, position, vault, vault_token, lb_pair,
                         meteora, wallets>>

\* a variant that closes only positions whose liquidity has left the pool
ApplyEmergencyCloseError_NeedsPool(caller, p, accts) ==
  IF ~position[p].initialized \/ ~vault[p].initialized THEN "AccountNotInitialized"
  ELSE IF ~(p = config.pending_emergency_close) THEN "InvalidPosition"
  ELSE IF ~VaultTokenOwnerOk(accts.vault_token, p) THEN "InvalidTokenOwner"
  ELSE IF ~(config.emergency_close_at > 0) THEN "NoPendingEmergencyClose"
  ELSE IF ~TimelockExpired(clock.unix_timestamp, config.emergency_close_at)
       THEN "EmergencyCloseTimelockNotExpired"
  ELSE IF RemovedX(meteora[p], position[p].min_bin_id, position[p].max_bin_id) > 0
       THEN "MeteoraError"
  ELSE ""

ApplyEmergencyCloseError(caller, p, accts) ==
  IF ~position[p].initialized \/ ~vault[p].initialized THEN "AccountNotInitialized"
  ELSE IF ~(p = config.pending_emergency_close) THEN "InvalidPosition"
  ELSE IF ~VaultTokenOwnerOk(accts.vault_token, p) THEN "InvalidTokenOwner"
  ELSE IF ~(config.emergency_close_at > 0) THEN "NoPendingEmergencyClose"
  ELSE IF ~TimelockExpired(clock.unix_timestamp, config.emergency_close_at)
       THEN "EmergencyCloseTimelockNotExpired"
  ELSE ""

\* a variant that also closes the Meteora position
ApplyEmergencyClose_ClosesMeteora(caller, p, accts) ==
  /\ config.initialized
  /\ LET err == ApplyEmergencyCloseError(caller, p, accts)
         q == accts.vault_token
     IN IF err # ""
        THEN /\ UNCHANGED monke /\ result' = Rejected("apply_emergency_close", err)
             /\ UNCHANGED <<clock, ledger>>
        ELSE /\ vault_token' = [vault_token EXCEPT ![q] = [x |-> 0, y |-> 0]]
             /\ config' = [config EXCEPT !.pending_emergency_close = NoPositionKey,
                                         !.emergency_close_at = 0]
             /\ position' = [position EXCEPT ![p] = NoPosition]
             /\ vault' = [vault EXCEPT ![p] = NoVault]
             /\ UNCHANGED monke /\ result' = [NoResult EXCEPT !.op = "apply_emergency_close", !.signer = caller,
                  !.position = p, !.side = position[p].side, !.from_vault = q,
                  !.recipient = position[p].owner,
                  !.x_before = vault_token[q].x, !.y_before = vault_token[q].y,
                  !.x_to_owner = vault_token[q].x, !.y_to_owner = vault_token[q].y]
             /\ meteora' = [meteora EXCEPT ![p] = NoMeteoraPosition]
             /\ UNCHANGED <<clock, rover_authority, lb_pair, wallets>>

ApplyEmergencyClose(caller, p, accts) ==
  /\ config.initialized
  /\ LET err == ApplyEmergencyCloseError(caller, p, accts)
         q == accts.vault_token
     IN IF err # ""
        THEN /\ UNCHANGED monke /\ result' = Rejected("apply_emergency_close", err)
             /\ UNCHANGED <<clock, ledger>>
        ELSE /\ vault_token' = [vault_token EXCEPT ![q] = [x |-> 0, y |-> 0]]
             /\ config' = [config EXCEPT !.pending_emergency_close = NoPositionKey,
                                         !.emergency_close_at = 0]
             /\ position' = [position EXCEPT ![p] = NoPosition]
             /\ vault' = [vault EXCEPT ![p] = NoVault]
             /\ UNCHANGED monke /\ result' = [NoResult EXCEPT !.op = "apply_emergency_close", !.signer = caller,
                  !.position = p, !.side = position[p].side, !.from_vault = q,
                  !.recipient = position[p].owner,
                  !.x_before = vault_token[q].x, !.y_before = vault_token[q].y,
                  !.x_to_owner = vault_token[q].x, !.y_to_owner = vault_token[q].y]
             /\ UNCHANGED <<clock, rover_authority, lb_pair, meteora, wallets>>

\* ------------------------------------------------------ program: rover
\* a variant without the cap on the width
RoverWidth_NoCap(bin_step) ==
  LET bins_for_2x == 6931 \div bin_step
  IN IF bins_for_2x < 1 THEN 1 ELSE bins_for_2x

\* width of a rover range: 6931 / bin_step, between 1 and 70 (lib.rs:1258-1259)
RoverWidth(bin_step) ==
  LET bins_for_2x == 6931 \div bin_step
  IN IF bins_for_2x < 1 THEN 1
     ELSE IF bins_for_2x > MAX_POSITION_WIDTH THEN MAX_POSITION_WIDTH
     ELSE bins_for_2x

OpenRoverPositionError(depositor, p, amount, bin_step) ==
  LET active_id == lb_pair.active_id
      min_bin_id == active_id + 1
      max_bin_id == min_bin_id + RoverWidth(bin_step) - 1
  IN IF ~rover_authority.initialized THEN "AccountNotInitialized"
     ELSE IF position[p].initialized \/ vault[p].initialized THEN "AccountAlreadyInUse"
     ELSE IF config.paused THEN "Paused"
     ELSE IF ~(amount > 0) THEN "ZeroAmount"
     ELSE IF ~(amount >= MIN_ROVER_DEPOSIT) THEN "RoverDepositTooSmall"
     ELSE IF ~(bin_step >= MIN_ROVER_BIN_STEP) THEN "RoverBinStepTooSmall"
     ELSE IF ~(active_id > -443636 /\ active_id < 443636) THEN "InvalidBinRange"
     ELSE IF meteora[p].exists THEN "MeteoraError"
     ELSE IF ~(min_bin_id \in BinIds) THEN "MeteoraError"
     ELSE ""

\* what an accepted open_rover_position writes (lib.rs:1290-1378)
OpenRoverPositionCommit(p, amount, bin_step) ==
  LET active_id == lb_pair.active_id
      min_bin_id == active_id + 1
      max_bin_id == min_bin_id + RoverWidth(bin_step) - 1
  IN /\ meteora' = [meteora EXCEPT ![p] =
                      AddLiquidity(amount, 0, active_id, min_bin_id, max_bin_id)]
     /\ position' = [position EXCEPT ![p] =
          [initialized |-> TRUE, owner |-> RoverAuthorityKey, meteora_position |-> p,
           side |-> "Sell", min_bin_id |-> min_bin_id, max_bin_id |-> max_bin_id,
           initial_amount |-> amount, harvested_amount |-> 0,
           created_at |-> clock.unix_timestamp]]
     /\ vault' = [vault EXCEPT ![p] = [initialized |-> TRUE, position |-> p]]
     /\ config' = [config EXCEPT !.total_positions = SaturatingAdd(@, 1),
                                 !.total_volume = SaturatingAdd(@, amount)]
     /\ rover_authority' = [rover_authority EXCEPT !.total_rover_positions = SaturatingAdd(@, 1)]
     /\ UNCHANGED <<clock, vault_token, lb_pair>>

OpenRoverPosition(depositor, p, amount, bin_step) ==
  /\ config.initialized
  /\ OpensLeft
  /\ LET err == OpenRoverPositionError(depositor, p, amount, bin_step)
         min_bin_id == lb_pair.active_id + 1
         max_bin_id == min_bin_id + RoverWidth(bin_step) - 1
     IN IF err # ""
        THEN /\ UNCHANGED monke /\ result' = Rejected("open_rover_position", err)
             /\ UNCHANGED <<clock, ledger>>
        ELSE /\ OpenRoverPositionCommit(p, amount, bin_step)
             /\ UNCHANGED monke /\ result' = [NoResult EXCEPT !.op = "open_rover_position", !.signer = depositor,
                             !.position = p, !.side = "Sell", !.min_bin_id = min_bin_id,
                             !.max_bin_id = max_bin_id, !.deposit_x = amount]
             /\ UNCHANGED wallets

\* ------------------------------------------------- program: fee rover
\* width of a fee rover range (lib.rs:1487)
FeeRoverWidth_NoFloor(bin_step) == Min({70, 6931 \div bin_step})

FeeRoverWidth(bin_step) == Min({70, Max({1, 6931 \div bin_step})})

OpenFeeRoverError(bot, p, amount, bin_step) ==
  LET active_id == lb_pair.active_id
      min_bin_id == active_id + 1
  IN IF ~rover_authority.initialized THEN "AccountNotInitialized"
     ELSE IF bot # config.bot THEN "Unauthorized"
     ELSE IF position[p].initialized \/ vault[p].initialized THEN "AccountAlreadyInUse"
     ELSE IF ~(amount > 0) THEN "ZeroAmount"
     ELSE IF ~(bin_step >= MIN_ROVER_BIN_STEP) THEN "RoverBinStepTooSmall"
     ELSE IF ~(active_id > -443636 /\ active_id < 443636) THEN "InvalidBinRange"
     ELSE IF ~(amount <= wallets.rover_token_x) THEN "InsufficientFunds"
     ELSE IF meteora[p].exists THEN "MeteoraError"
     ELSE IF ~(min_bin_id \in BinIds) THEN "MeteoraError"
     ELSE ""

OpenFeeRover(bot, p, amount, bin_step) ==
  /\ config.initialized
  /\ OpensLeft
  /\ LET err == OpenFeeRoverError(bot, p, amount, bin_step)
         active_id == lb_pair.active_id
         min_bin_id == active_id + 1
         max_bin_id == min_bin_id + FeeRoverWidth(bin_step) - 1
     IN IF err # ""
        THEN /\ UNCHANGED monke /\ result' = Rejected("open_fee_rover", err)
             /\ UNCHANGED <<clock, ledger>>
        ELSE /\ wallets' = [wallets EXCEPT !.rover_token_x = @ - amount]
             /\ meteora' = [meteora EXCEPT ![p] =
                              AddLiquidity(amount, 0, active_id, min_bin_id, max_bin_id)]
             /\ position' = [position EXCEPT ![p] =
                  [initialized |-> TRUE, owner |-> RoverAuthorityKey, meteora_position |-> p,
                   side |-> "Sell", min_bin_id |-> min_bin_id, max_bin_id |-> max_bin_id,
                   initial_amount |-> amount, harvested_amount |-> 0,
                   created_at |-> clock.unix_timestamp]]
             /\ vault' = [vault EXCEPT ![p] = [initialized |-> TRUE, position |-> p]]
             /\ config' = [config EXCEPT !.total_positions = SaturatingAdd(@, 1),
                                         !.total_volume = SaturatingAdd(@, amount)]
             /\ rover_authority' = [rover_authority EXCEPT !.total_rover_positions = SaturatingAdd(@, 1)]
             /\ UNCHANGED monke /\ result' = [NoResult EXCEPT !.op = "open_fee_rover", !.signer = bot,
                             !.position = p, !.side = "Sell", !.min_bin_id = min_bin_id,
                             !.max_bin_id = max_bin_id, !.deposit_x = amount]
             /\ UNCHANGED <<clock, vault_token, lb_pair>>

\* ------------------------------------ program: rover revenue destination
\* the accounts of UpdateRoverDistPool (lib.rs:2790-2805)
UpdateRoverDistPoolError(signer) ==
  IF ~rover_authority.initialized THEN "AccountNotInitialized"
  ELSE IF signer # config.authority THEN "Unauthorized"
  ELSE ""

ProposeRevenueDest(signer, new_revenue_dest) ==
  /\ config.initialized
  /\ LET err == IF UpdateRoverDistPoolError(signer) # "" THEN UpdateRoverDistPoolError(signer)
                ELSE IF new_revenue_dest = DefaultPubkey THEN "InvalidDistPool"
                ELSE ""
     IN IF err # ""
        THEN /\ UNCHANGED monke /\ result' = Rejected("propose_revenue_dest", err)
             /\ UNCHANGED <<clock, ledger>>
        ELSE /\ rover_authority' =
                  [rover_authority EXCEPT !.pending_revenue_dest = new_revenue_dest,
                                          !.revenue_dest_change_at = TimelockEnd(clock.unix_timestamp)]
             /\ UNCHANGED monke /\ result' = [NoResult EXCEPT !.op = "propose_revenue_dest", !.signer = signer,
                                           !.recipient = new_revenue_dest]
             /\ UNCHANGED <<clock, config, position, vault, vault_token, lb_pair, meteora,
                            wallets>>

ApplyRevenueDestError ==
  IF ~rover_authority.initialized THEN "AccountNotInitialized"
  ELSE IF ~(rover_authority.revenue_dest_change_at > 0) THEN "NoPendingFeeChange"
  ELSE IF ~TimelockExpired(clock.unix_timestamp, rover_authority.revenue_dest_change_at)
       THEN "FeeTimelockNotExpired"
  ELSE ""

ApplyRevenueDest(caller) ==
  /\ config.initialized
  /\ IF ApplyRevenueDestError # ""
     THEN /\ UNCHANGED monke /\ result' = Rejected("apply_revenue_dest", ApplyRevenueDestError)
          /\ UNCHANGED <<clock, ledger>>
     ELSE /\ rover_authority' =
               [rover_authority EXCEPT !.revenue_dest = rover_authority.pending_revenue_dest,
                                       !.pending_revenue_dest = DefaultPubkey,
                                       !.revenue_dest_change_at = 0]
          /\ UNCHANGED monke /\ result' = [NoResult EXCEPT !.op = "apply_revenue_dest", !.signer = caller]
          /\ UNCHANGED <<clock, config, position, vault, vault_token, lb_pair, meteora,
                         wallets>>

CancelPendingRevenueDest(signer) ==
  /\ config.initialized
  /\ LET err == IF UpdateRoverDistPoolError(signer) # "" THEN UpdateRoverDistPoolError(signer)
                ELSE IF ~(rover_authority.revenue_dest_change_at > 0) THEN "NoPendingFeeChange"
                ELSE ""
     IN IF err # ""
        THEN /\ UNCHANGED monke /\ result' = Rejected("cancel_pending_revenue_dest", err)
             /\ UNCHANGED <<clock, ledger>>
        ELSE /\ rover_authority' =
                  [rover_authority EXCEPT !.pending_revenue_dest = DefaultPubkey,
                                          !.revenue_dest_change_at = 0]
             /\ UNCHANGED monke /\ result' = [NoResult EXCEPT !.op = "cancel_pending_revenue_dest",
                                           !.signer = signer]
             /\ UNCHANGED <<clock, config, position, vault, vault_token, lb_pair, meteora,
                            wallets>>

\* lamports paid to the destinations of S so far
RECURSIVE SweptTotal(_)
SweptTotal(S) == IF S = {} THEN 0
                 ELSE LET d == CHOOSE e \in S : TRUE
                      IN wallets.dest[d] + SweptTotal(S \ {d})

\* a variant that pays whatever account the caller passes
SweepDestOk_Any(revenue_dest) == TRUE

\* the account paid must be the stored destination (lib.rs:2838-2842)
SweepDestOk(revenue_dest) == revenue_dest = rover_authority.revenue_dest

\* proceeds of rover positions reach the rover_authority account as lamports
\* (close_rover_token_account unwraps them) and as fee tokens
FundRover(lamports, token_x) ==
  /\ rover_authority.initialized
  /\ SweptTotal(RevenueDests) + lamports <= MaxSweeps * lamports
  /\ wallets.rover_lamports = 0
  /\ wallets.rover_token_x = 0
  /\ wallets' = [wallets EXCEPT !.rover_lamports = lamports, !.rover_token_x = token_x]
  /\ UNCHANGED monke /\ result' = NoResult
  /\ UNCHANGED <<clock, config, rover_authority, position, vault, vault_token, lb_pair,
                 meteora>>

SweepRover_AlwaysHeartbeat(caller, revenue_dest) ==
  /\ config.initialized
  /\ LET sweepable == wallets.rover_lamports
         err == IF ~rover_authority.initialized THEN "AccountNotInitialized"
                ELSE IF ~SweepDestOk(revenue_dest) THEN "InvalidPool"
                ELSE IF ~(sweepable > 0) THEN "NothingToSweep"
                ELSE ""
     IN IF err # ""
        THEN /\ UNCHANGED monke /\ result' = Rejected("sweep_rover", err)
             /\ UNCHANGED <<clock, ledger>>
        ELSE /\ config' = [config EXCEPT !.last_bot_sweep_slot = clock.slot]
             /\ wallets' = [wallets EXCEPT !.rover_lamports = 0,
                                           !.dest[revenue_dest] = @ + sweepable]
             /\ UNCHANGED monke /\ result' = [NoResult EXCEPT !.op = "sweep_rover", !.signer = caller,
                             !.recipient = revenue_dest, !.lamports = sweepable]
             /\ UNCHANGED <<clock, rover_authority, position, vault, vault_token, lb_pair,
                            meteora>>

SweepRover(caller, revenue_dest) ==
  /\ config.initialized
  /\ LET sweepable == wallets.rover_lamports
         err == IF ~rover_authority.initialized THEN "AccountNotInitialized"
                ELSE IF ~SweepDestOk(revenue_dest) THEN "InvalidPool"
                ELSE IF ~(sweepable > 0) THEN "NothingToSweep"
                ELSE ""
     IN IF err # ""
        THEN /\ UNCHANGED monke /\ result' = Rejected("sweep_rover", err)
             /\ UNCHANGED <<clock, ledger>>
        ELSE /\ config' = IF caller = config.bot
                          THEN [config EXCEPT !.last_bot_sweep_slot = clock.slot]
                          ELSE config
             /\ wallets' = [wallets EXCEPT !.rover_lamports = 0,
                                           !.dest[revenue_dest] = @ + sweepable]
             /\ UNCHANGED monke /\ result' = [NoResult EXCEPT !.op = "sweep_rover", !.signer = caller,
                             !.recipient = revenue_dest, !.lamports = sweepable]
             /\ UNCHANGED <<clock, rover_authority, position, vault, vault_token, lb_pair,
                            meteora>>

\* ------------------------------------------------------------- the inputs
OpenAmounts == {0, MIN_POSITION_AMOUNT - 1, MIN_POSITION_AMOUNT}
Slippages == {10, 21}
BinSteps == {MIN_ROVER_BIN_STEP - 1, MIN_ROVER_BIN_STEP, 3000, 6931}
BinLists == SeqsUpTo(BinIds, MaxIds)
ShortLists == SeqsUpTo(BinIds, 1) \cup {<<0, 1>>, <<0, 0>>}
Callers == {Bot, Keeper}

\* the accounts of position p's own vault, with a tip account
OwnAccts(p, ata) == [vault_token |-> p, keeper_ata |-> ata]

\* the accounts of vault q, passed with some position
AcctsOf(q) == [vault_token |-> q, keeper_ata |-> NoAta]

\* the tip account a fallback caller passes when it passes the right one
OwnAta(p, signer) ==
  IF signer = Keeper
  THEN IF position[p].side = "Buy" THEN [key |-> "keeper_ata_x", mint |-> "X"]
                                   ELSE [key |-> "keeper_ata_y", mint |-> "Y"]
  ELSE NoAta

\* keys that can sign a transaction: rover_authority is a program-derived
\* address (seeds [b"rover_authority"]), for which no instruction of the
\* program signs
Signers == Users \cup {Admin, Bot, Keeper}

\* no position has been opened yet
FirstOpen == config.total_positions = 0

\* -------------------------------------- the engine: bot and fallback keeper
\* one position over bins 0..1, from deployment
Next ==
  \/ AdvanceClock(SlotStep, 0)
  \/ \E d \in {-1, 1} : Swap(d)
  \/ Initialize(Admin, Bot, 30)
  \/ InitializeRover(Admin, "dist_pool")
  \/ \E side_arg \in Sides :
        FirstOpen /\ OpenPositionV2("alice", "p1", MIN_POSITION_AMOUNT, 0, 1, side_arg, 10)
  \/ \E signer \in Callers, bin_ids \in ShortLists, ata \in KeeperAtas :
        /\ ata \in {NoAta, OwnAta("p1", signer)}
        /\ HarvestBins(signer, "p1", bin_ids, OwnAccts("p1", ata))
  \/ \E signer \in Callers : ClosePosition(signer, "p1", OwnAccts("p1", NoAta))
  \/ UserClose("alice", "p1", OwnAccts("p1", NoAta))

Spec == Init /\ [][Next]_vars

\* ------------------------------------------------ the bin lists of a harvest
\* one position over bins 0..MaxBin, harvested by the bot with every list
NextBins ==
  \/ \E d \in {-1, 1} : Swap(d)
  \/ Initialize(Admin, Bot, 30)
  \/ InitializeRover(Admin, "dist_pool")
  \/ FirstOpen /\ OpenPositionV2("alice", "p1", MIN_POSITION_AMOUNT, 0, MaxBin, "Sell", 10)
  \/ \E bin_ids \in BinLists : HarvestBins(Bot, "p1", bin_ids, OwnAccts("p1", NoAta))
  \/ UserClose("alice", "p1", OwnAccts("p1", NoAta))

SpecBins == Init /\ [][NextBins]_vars

\* ------------------------------------------------------- opening positions
NextOpen ==
  \/ \E d \in {-1, 1} : Swap(d)
  \/ \E fee_bps \in {30, 1001} : Initialize(Admin, Bot, fee_bps)
  \/ \E signer \in {Admin, Bot}, dest \in {DefaultPubkey, "dist_pool"} : InitializeRover(signer, dest)
  \/ \E user \in Users, amount \in OpenAmounts, min_bin_id \in BinIds, max_bin_id \in BinIds,
        side_arg \in Sides, slip \in Slippages :
        /\ amount = MIN_POSITION_AMOUNT \/ (min_bin_id = 0 /\ max_bin_id = MaxBin)
        /\ slip = 10 \/ (min_bin_id = 0 /\ max_bin_id = MaxBin)
        /\ FirstOpen
        /\ OpenPositionV2(user, "p1", amount, min_bin_id, max_bin_id, side_arg, slip)
  \/ \E signer \in Users : UserClose(signer, "p1", OwnAccts("p1", NoAta))

SpecOpen == Init /\ [][NextOpen]_vars

\* ------------------------------------------------------------ pause, unpause
NextPause ==
  \/ \E d \in {-1, 1} : Swap(d)
  \/ \E p \in PositionKeys : AccrueSwapFees(p, 77)
  \/ Initialize(Admin, Bot, 30)
  \/ InitializeRover(Admin, "dist_pool")
  \/ \E signer \in {Admin, Bot} : Pause(signer)
  \/ \E signer \in {Admin, Bot} : Unpause(signer)
  \/ \E side_arg \in Sides :
        FirstOpen /\ OpenPositionV2("alice", "p1", MIN_POSITION_AMOUNT, 0, 1, side_arg, 10)
  \/ \E bin_step \in BinSteps, amount \in {MIN_ROVER_DEPOSIT - 1, MIN_ROVER_DEPOSIT} :
        FirstOpen /\ OpenRoverPosition(Keeper, "p2", amount, bin_step)
  \/ \E p \in PositionKeys, bin_ids \in ShortLists : HarvestBins(Bot, p, bin_ids, OwnAccts(p, NoAta))
  \/ \E p \in PositionKeys : ClaimFees("alice", p, OwnAccts(p, NoAta))
  \/ \E p \in PositionKeys : UserClose("alice", p, OwnAccts(p, NoAta))

SpecPause == Init /\ [][NextPause]_vars

\* ------------------------------------------ two positions and their vaults
NextIsolation ==
  \/ AdvanceClock(0, TimeStep * MaxTimeTicks)
  \/ \E p \in PositionKeys : Donate(p, "Y", 500)
  \/ Initialize(Admin, Bot, 30)
  \/ InitializeRover(Admin, "dist_pool")
  \/ \E user \in Users, p \in PositionKeys :
        /\ (user = "alice") = (p = "p1")
        /\ OpenPositionV2(user, p, MIN_POSITION_AMOUNT, 1, 1, "Sell", 10)
  \/ \E p \in PositionKeys, q \in PositionKeys : HarvestBins(Bot, p, <<1>>, AcctsOf(q))
  \/ \E p \in PositionKeys, q \in PositionKeys : ClosePosition(Bot, p, AcctsOf(q))
  \/ \E signer \in Users, p \in PositionKeys, q \in PositionKeys : UserClose(signer, p, AcctsOf(q))
  \/ \E signer \in Users, p \in PositionKeys, q \in PositionKeys : ClaimFees(signer, p, AcctsOf(q))
  \/ \E p \in PositionKeys : ProposeEmergencyClose(Admin, p)
  \/ \E p \in PositionKeys, q \in PositionKeys : ApplyEmergencyClose(Keeper, p, AcctsOf(q))

SpecIsolation == Init /\ [][NextIsolation]_vars

\* ------------------------------------------------- the fee and tip amounts
\* An open position whose top or bottom bins the market has converted: each
\* converted bin holds what the pool paid for it, the others their deposit.
FeeChoices == {1, 30, 1000}
TipChoices == {0, 1000, 5000}
ConvertedOut == {1, 3333, 10000, 25000}
PreBalances == {[vault |-> 0, pool_fee |-> 0], [vault |-> 500, pool_fee |-> 77]}

\* open_position_v2 and the swaps that followed it: `converted` bins of a
\* position over bins 0..1 were crossed and now hold `out` of the other token
ConvertedPosition(side, converted, out, pool_fee) ==
  LET active_id == IF side = "Sell" THEN converted ELSE 1 - converted
      opened == AddLiquidity(IF side = "Sell" THEN MIN_POSITION_AMOUNT ELSE 0,
                             IF side = "Sell" THEN 0 ELSE MIN_POSITION_AMOUNT,
                             IF side = "Sell" THEN -1 ELSE MaxBin + 1, 0, 1)
      crossed(b) == b \in 0 .. 1 /\ (IF side = "Sell" THEN b < active_id ELSE b > active_id)
  IN [exists |-> TRUE,
      liq_x |-> [b \in BinIds |-> IF crossed(b) THEN (IF side = "Buy" THEN out ELSE 0)
                                  ELSE opened.liq_x[b]],
      liq_y |-> [b \in BinIds |-> IF crossed(b) THEN (IF side = "Sell" THEN out ELSE 0)
                                  ELSE opened.liq_y[b]],
      liq_x_above |-> 0, liq_y_above |-> 0,
      fee_x |-> pool_fee, fee_y |-> pool_fee]

InitFees ==
  \E fee_bps \in FeeChoices, tip_bps \in TipChoices, side \in Sides,
     converted \in 0 .. 2, out \in ConvertedOut, pre \in PreBalances :
    /\ clock = [slot |-> SlotStep * MaxSlotTicks, unix_timestamp |-> 0]
    /\ config = [NoConfig EXCEPT !.initialized = TRUE, !.authority = Admin, !.bot = Bot,
                                 !.fee_bps = fee_bps, !.keeper_tip_bps = tip_bps,
                                 !.priority_slots = 100, !.total_positions = 1,
                                 !.total_volume = MIN_POSITION_AMOUNT]
    /\ rover_authority = [NoRoverAuthority EXCEPT !.initialized = TRUE,
                                                  !.revenue_dest = "dist_pool"]
    /\ position = [p \in PositionKeys |->
                     IF p = "p1"
                     THEN [initialized |-> TRUE, owner |-> "alice", meteora_position |-> p,
                           side |-> side, min_bin_id |-> 0, max_bin_id |-> 1,
                           initial_amount |-> MIN_POSITION_AMOUNT, harvested_amount |-> 0,
                           created_at |-> 0]
                     ELSE NoPosition]
    /\ vault = [p \in PositionKeys |->
                  IF p = "p1" THEN [initialized |-> TRUE, position |-> p] ELSE NoVault]
    /\ vault_token = [p \in PositionKeys |->
                        IF p = "p1" THEN [x |-> pre.vault, y |-> pre.vault]
                        ELSE [x |-> 0, y |-> 0]]
    /\ lb_pair = [active_id |-> IF side = "Sell" THEN converted ELSE 1 - converted]
    /\ meteora = [p \in PositionKeys |->
                    IF p = "p1" THEN ConvertedPosition(side, converted, out, pre.pool_fee)
                    ELSE NoMeteoraPosition]
    /\ wallets = NoWallets
    /\ MonkeInit
    /\ result = NoResult

NextFees ==
  \/ \E signer \in Callers, bin_ids \in {<<0>>, <<1>>, <<0, 1>>} :
        HarvestBins(signer, "p1", bin_ids, OwnAccts("p1", OwnAta("p1", signer)))
  \/ \E signer \in Callers : ClosePosition(signer, "p1", OwnAccts("p1", NoAta))
  \/ UserClose("alice", "p1", OwnAccts("p1", NoAta))
  \/ ClaimFees("alice", "p1", OwnAccts("p1", NoAta))

SpecFees == InitFees /\ [][NextFees]_vars

\* ------------------------------------------------------ the fee timelock
\* one position harvested and closed while the fee rate is proposed, applied
\* and cancelled
ProposedFees == {0, 1000, 1001}
ProposedTips == {5000, 5001}

NextFeeLock ==
  \/ AdvanceClock(0, TimeStep)
  \/ Swap(-1)
  \/ \E fee_bps \in {30, 1001} : Initialize(Admin, Bot, fee_bps)
  \/ InitializeRover(Admin, "dist_pool")
  \/ \E signer \in {Admin, Bot}, new_fee_bps \in ProposedFees : ProposeFee(signer, new_fee_bps)
  \/ ApplyFee(Keeper)
  \/ \E signer \in {Admin, Bot} : CancelPendingFee(signer)
  \/ \E signer \in {Admin, Bot}, new_bps \in ProposedTips : UpdateKeeperTipBps(signer, new_bps)
  \/ FirstOpen /\ OpenPositionV2("alice", "p1", MIN_POSITION_AMOUNT, 0, 0, "Buy", 10)
  \/ HarvestBins(Bot, "p1", <<0>>, OwnAccts("p1", NoAta))
  \/ UserClose("alice", "p1", OwnAccts("p1", NoAta))

SpecFeeLock == Init /\ [][NextFeeLock]_vars

\* ------------------------------------------ the rover revenue destination
\* the rover_authority account is funded and swept while its destination is
\* proposed, applied and cancelled
NextRevenue ==
  \/ AdvanceClock(0, TimeStep)
  \/ Initialize(Admin, Bot, 30)
  \/ \E signer \in {Admin, Bot}, d \in {"dist_pool", DefaultPubkey} : InitializeRover(signer, d)
  \/ \E signer \in {Admin, Bot}, d \in {"pool_a", "pool_b", DefaultPubkey} :
        ProposeRevenueDest(signer, d)
  \/ ApplyRevenueDest(Keeper)
  \/ \E signer \in {Admin, Bot} : CancelPendingRevenueDest(signer)
  \/ FundRover(5000, 0)
  \/ \E caller \in Callers, d \in RevenueDests : SweepRover(caller, d)

SpecRevenue == Init /\ [][NextRevenue]_vars

\* ------------------------------------------------- cancelling a proposal
\* a fee rate and a revenue destination are proposed, cancelled and applied
NextCancel ==
  \/ AdvanceClock(0, TimeStep)
  \/ Initialize(Admin, Bot, 30)
  \/ InitializeRover(Admin, "dist_pool")
  \/ \E signer \in {Admin, Bot}, new_fee_bps \in {0, 1000} : ProposeFee(signer, new_fee_bps)
  \/ ApplyFee(Keeper)
  \/ \E signer \in {Admin, Bot} : CancelPendingFee(signer)
  \/ \E signer \in {Admin, Bot} : ProposeRevenueDest(signer, "pool_a")
  \/ ApplyRevenueDest(Keeper)
  \/ \E signer \in {Admin, Bot} : CancelPendingRevenueDest(signer)

SpecCancel == Init /\ [][NextCancel]_vars

\* ------------------------------------------------------- emergency close
\* two positions, one with tokens left in its vault; the authority names one
\* of them and anyone applies the close
NextEmergency ==
  \/ AdvanceClock(0, TimeStep)
  \/ Donate("p1", "XY", 500)
  \/ Initialize(Admin, Bot, 30)
  \/ InitializeRover(Admin, "dist_pool")
  \/ OpenPositionV2("alice", "p1", MIN_POSITION_AMOUNT, 1, 1, "Sell", 10)
  \/ OpenPositionV2("bob", "p2", MIN_POSITION_AMOUNT, 1, 1, "Sell", 10)
  \/ HarvestBins(Bot, "p1", <<1>>, OwnAccts("p1", NoAta))
  \/ \E signer \in {Admin, Bot}, p \in PositionKeys : ProposeEmergencyClose(signer, p)
  \/ \E caller \in {Keeper, "alice"}, p \in PositionKeys, q \in PositionKeys :
        ApplyEmergencyClose(caller, p, AcctsOf(q))

SpecEmergency == Init /\ [][NextEmergency]_vars

\* ----------------------------------------------------- widths of ranges
\* a user position and a rover position opened over ranges of every width
WideBins == {0, 1, MAX_POSITION_WIDTH - 1, MAX_POSITION_WIDTH, MAX_POSITION_WIDTH + 1}
WidthSteps == {MIN_ROVER_BIN_STEP - 1, MIN_ROVER_BIN_STEP, 99, 100, 7000}

NextWidth ==
  \/ Swap(-1)
  \/ Initialize(Admin, Bot, 30)
  \/ InitializeRover(Admin, "dist_pool")
  \/ FundRover(0, MIN_ROVER_DEPOSIT)
  \/ \E min_bin_id \in {0, 1}, max_bin_id \in WideBins :
        /\ ~position["p1"].initialized
        /\ OpenPositionV2("alice", "p1", MIN_POSITION_AMOUNT, min_bin_id, max_bin_id, "Sell", 10)
  \/ \E bin_step \in WidthSteps :
        /\ ~position["p2"].initialized
        /\ OpenRoverPosition(Keeper, "p2", MIN_ROVER_DEPOSIT, bin_step)
  \/ \E bot \in Callers, bin_step \in WidthSteps :
        /\ ~position["p2"].initialized
        /\ OpenFeeRover(bot, "p2", MIN_ROVER_DEPOSIT, bin_step)
  \/ UserClose("alice", "p1", OwnAccts("p1", NoAta))
  \/ ClosePosition(Bot, "p2", OwnAccts("p2", NoAta))

SpecWidth == Init /\ [][NextWidth]_vars

\* ------------------------------------------------------- the bot's pause
\* one position harvested, claimed and closed by the bot, a fallback caller
\* and its owner while the authority sets and clears both pause flags
NextBotPause ==
  \/ AdvanceClock(SlotStep, 0)
  \/ AccrueSwapFees("p1", 77)
  \/ Initialize(Admin, Bot, 30)
  \/ InitializeRover(Admin, "dist_pool")
  \/ \E signer \in {Admin, Bot} : BotPause(signer)
  \/ \E signer \in {Admin, Bot} : BotUnpause(signer)
  \/ Pause(Admin)
  \/ Unpause(Admin)
  \/ FirstOpen /\ OpenPositionV2("alice", "p1", MIN_POSITION_AMOUNT, 0, 0, "Buy", 10)
  \/ \E signer \in Callers : HarvestBins(signer, "p1", <<0>>, OwnAccts("p1", OwnAta("p1", signer)))
  \/ \E signer \in Callers : ClosePosition(signer, "p1", OwnAccts("p1", NoAta))
  \/ ClaimFees("alice", "p1", OwnAccts("p1", NoAta))
  \/ UserClose("alice", "p1", OwnAccts("p1", NoAta))

SpecBotPause == Init /\ [][NextBotPause]_vars

\* ------------------------------------------------------------ user_close
\* a user's position and a rover position, closed by every signer while the
\* pause flags and the bot's heartbeat change
NextUserClose ==
  \/ AdvanceClock(SlotStep, 0)
  \/ Initialize(Admin, Bot, 30)
  \/ InitializeRover(Admin, "dist_pool")
  \/ Pause(Admin)
  \/ BotPause(Admin)
  \/ config.total_positions = 0
       /\ OpenPositionV2("alice", "p1", MIN_POSITION_AMOUNT, 0, 0, "Buy", 10)
  \/ config.total_positions = 1
       /\ OpenRoverPosition(Keeper, "p2", MIN_ROVER_DEPOSIT, 6931)
  \/ \E p \in PositionKeys : HarvestBins(Bot, p, <<position[p].min_bin_id>>, OwnAccts(p, NoAta))
  \/ \E signer \in Signers, p \in PositionKeys : UserClose(signer, p, OwnAccts(p, NoAta))

SpecUserClose == Init /\ [][NextUserClose]_vars

\* --------------------------------------------------- after a position closes
\* the Meteora position key p1 is the only one used: a position is opened
\* under it, harvested, claimed, closed on each of the three paths, and the
\* key is then used again
NextClosed ==
  \/ AdvanceClock(0, TimeStep)
  \/ Initialize(Admin, Bot, 30)
  \/ InitializeRover(Admin, "dist_pool")
  \/ OpenPositionV2("alice", "p1", MIN_POSITION_AMOUNT, 0, 0, "Buy", 10)
  \/ AccrueSwapFees("p1", 77)
  \/ HarvestBins(Bot, "p1", <<0>>, OwnAccts("p1", NoAta))
  \/ ClaimFees("alice", "p1", OwnAccts("p1", NoAta))
  \/ ClosePosition(Bot, "p1", OwnAccts("p1", NoAta))
  \/ UserClose("alice", "p1", OwnAccts("p1", NoAta))
  \/ ProposeEmergencyClose(Admin, "p1")
  \/ ApplyEmergencyClose(Keeper, "p1", AcctsOf("p1"))

SpecClosed == Init /\ [][NextClosed]_vars

\* -------------------------------------------------------------- claim_fees
\* a position that earns swap fees, is sent tokens and is harvested, with
\* claim_fees called by every signer and with either vault's token accounts
NextClaim ==
  \/ Swap(-1)
  \/ AccrueSwapFees("p1", 77)
  \/ Donate("p1", "X", 500)
  \/ Initialize(Admin, Bot, 30)
  \/ InitializeRover(Admin, "dist_pool")
  \/ FirstOpen /\ OpenPositionV2("alice", "p1", MIN_POSITION_AMOUNT, 0, 1, "Buy", 10)
  \/ HarvestBins(Bot, "p1", <<1>>, OwnAccts("p1", NoAta))
  \/ \E signer \in Signers, p \in PositionKeys, q \in PositionKeys :
        ClaimFees(signer, p, AcctsOf(q))

SpecClaim == Init /\ [][NextClaim]_vars

\* ------------------------------------------------- the authority's hand-over
\* the authority nominates, replaces and withdraws nominees, signers accept,
\* and old and new authorities use the admin instructions
Nominees == {DefaultPubkey, Admin, "alice", "bob"}
Officers == {Admin, "alice", "bob"}

NextAuthority ==
  \/ Initialize(Admin, Bot, 30)
  \/ \E signer \in Officers, new_authority \in Nominees : TransferAuthority(signer, new_authority)
  \/ \E signer \in Officers \cup {Keeper} : AcceptAuthority(signer)
  \/ \E signer \in Officers : Pause(signer)
  \/ \E signer \in Officers : Unpause(signer)
  \/ \E signer \in Officers : BotPause(signer)
  \/ \E signer \in Officers, new_fee_bps \in {0, 1001} : ProposeFee(signer, new_fee_bps)

SpecAuthority == Init /\ [][NextAuthority]_vars

\* ------------------------------------------------ the staleness threshold
\* the authority moves the threshold, replaces the bot and pauses it while
\* the clock runs past 9000 slots and both callers harvest and close
ProposedSlots == {0, 9000, 9001}

NextPriority ==
  \/ AdvanceClock(LongSlotStep, 0)
  \/ Initialize(Admin, Bot, 30)
  \/ InitializeRover(Admin, "dist_pool")
  \/ \E signer \in {Admin, Bot}, new_slots \in ProposedSlots : UpdatePrioritySlots(signer, new_slots)
  \/ UpdateBot(Admin, Keeper)
  \/ BotPause(Admin)
  \/ FirstOpen /\ OpenPositionV2("alice", "p1", MIN_POSITION_AMOUNT, 0, 0, "Buy", 10)
  \/ \E signer \in Callers :
        HarvestBins(signer, "p1", <<0>>, OwnAccts("p1", OwnAta("p1", Keeper)))
  \/ \E signer \in Callers : ClosePosition(signer, "p1", OwnAccts("p1", NoAta))

SpecPriority == Init /\ [][NextPriority]_vars

\* ------------------------------------------------- the keeper's tip account
\* fallback harvests of converted and unconverted bins with every kind of
\* tip account, at the initial tip rate and at a tip rate of zero
NextTipAccount ==
  \/ AdvanceClock(SlotStep, 0)
  \/ Swap(-1)
  \/ Initialize(Admin, Bot, 30)
  \/ InitializeRover(Admin, "dist_pool")
  \/ UpdateKeeperTipBps(Admin, 0)
  \/ FirstOpen /\ OpenPositionV2("alice", "p1", MIN_POSITION_AMOUNT, 0, 1, "Buy", 10)
  \/ \E signer \in Callers, bin_ids \in {<<0>>, <<1>>}, ata \in KeeperAtas :
        HarvestBins(signer, "p1", bin_ids, OwnAccts("p1", ata))

SpecTipAccount == Init /\ [][NextTipAccount]_vars

\* =================================================================== claims
Ok(op) == result.op = op /\ result.err = ""

PositionOps ==
  {"harvest_bins", "close_position", "user_close", "claim_fees", "apply_emergency_close"}

\* amounts of the last instruction on the side its fee is taken from
\* (Buy: token X, Sell: token Y) and on the other side
FeeSide(r) ==
  IF r.side = "Buy"
  THEN [before |-> r.x_before, received |-> r.x_received, fee |-> r.x_fee, tip |-> r.x_tip,
        to_protocol |-> r.x_to_protocol, to_owner |-> r.x_to_owner]
  ELSE [before |-> r.y_before, received |-> r.y_received, fee |-> r.y_fee, tip |-> r.y_tip,
        to_protocol |-> r.y_to_protocol, to_owner |-> r.y_to_owner]

OtherSide(r) ==
  IF r.side = "Buy"
  THEN [before |-> r.y_before, received |-> r.y_received, fee |-> r.y_fee, tip |-> r.y_tip,
        to_protocol |-> r.y_to_protocol, to_owner |-> r.y_to_owner]
  ELSE [before |-> r.x_before, received |-> r.x_received, fee |-> r.x_fee, tip |-> r.x_tip,
        to_protocol |-> r.x_to_protocol, to_owner |-> r.x_to_owner]

C2_SideFromActiveId ==
  Ok("open_position_v2") =>
    LET pos == position[result.position]
        mp == meteora[result.position]
        expected == IF result.min_bin_id > lb_pair.active_id THEN "Sell" ELSE "Buy"
    IN /\ pos.side = expected
       /\ expected = "Sell" =>
            /\ result.deposit_x = pos.initial_amount /\ result.deposit_y = 0
            /\ SumBins(mp.liq_x, 0, MaxBin) = pos.initial_amount
            /\ SumBins(mp.liq_y, 0, MaxBin) = 0
       /\ expected = "Buy" =>
            /\ result.deposit_y = pos.initial_amount /\ result.deposit_x = 0
            /\ SumBins(mp.liq_y, 0, MaxBin) = pos.initial_amount
            /\ SumBins(mp.liq_x, 0, MaxBin) = 0

\* an open went through whose side argument differs from the stored side
C2_Witness ==
  /\ Ok("open_position_v2")
  /\ result.side_arg # position[result.position].side

\* some bin between the least and the greatest id of the list is not in it
HasGap(bin_ids) ==
  \E b \in Min(Range(bin_ids)) .. Max(Range(bin_ids)) : b \notin Range(bin_ids)

\* C3: harvest_bins accepts no bin list that has a gap (repeated ids
\* included), so it removes liquidity only from bins the caller listed.
C3_GapListsRejected ==
  Ok("harvest_bins") => ~HasGap(result.bin_ids)

C5_FeeAndTipBounded ==
  /\ result.op \in {"harvest_bins", "close_position", "user_close"} => result.err # "Overflow"
  /\ Ok("harvest_bins") =>
       LET f == FeeSide(result)
       IN /\ 0 <= f.tip /\ f.tip <= f.fee /\ f.fee <= f.received
          /\ f.to_protocol >= 0 /\ f.to_owner >= 0
  /\ (Ok("close_position") \/ Ok("user_close")) =>
       LET f == FeeSide(result)
       IN /\ 0 <= f.fee /\ f.fee <= f.before + f.received
          /\ f.to_owner >= 0

\* a fallback harvest and a close each charged a fee at the highest rate
C5_Witness ==
  /\ config.fee_bps = 1000
  /\ \/ Ok("harvest_bins") /\ FeeSide(result).tip > 0
     \/ Ok("close_position") /\ FeeSide(result).fee > 0

\* C6: the remainder of the fee division goes to the protocol: what the owner
\* is paid out of the fee base (the converted delta of a harvest, the vault
\* balance of a close) is at most base * (10000 - fee_bps) / 10000, unrounded.
C6_RemainderToProtocol ==
  /\ Ok("harvest_bins") =>
       LET f == FeeSide(result)
       IN (f.to_owner - f.before) * 10000 <= f.received * (10000 - config.fee_bps)
  /\ (Ok("close_position") \/ Ok("user_close")) =>
       LET f == FeeSide(result)
       IN f.to_owner * 10000 <= (f.before + f.received) * (10000 - config.fee_bps)

\* balances a vault may hold before a harvest
OtherBalances == {0, 1, 500, 12345}

\* C7: the fee and the tip of a harvest are computed from the increase of
\* the vault balance across the removal only: with any other pre-existing
\* balance the same harvest charges the same fee and tip, and the owner is
\* paid that balance in full on top of the delta less the fee.
C7_FeeOnDeltaOnly ==
  Ok("harvest_bins") =>
    LET f == FeeSide(result)
    IN /\ f.fee = (f.received * config.fee_bps) \div 10000
       /\ f.to_owner = f.before + (f.received - f.fee)
       /\ \A pre \in OtherBalances :
            LET h == HarvestAmounts(result.side, config.fee_bps, config.keeper_tip_bps,
                                    result.is_authorized_bot, pre, pre,
                                    pre + result.x_received, pre + result.y_received)
            IN /\ h.x_fee = result.x_fee /\ h.y_fee = result.y_fee
               /\ h.x_tip = result.x_tip /\ h.y_tip = result.y_tip
               /\ h.x_to_owner = pre + (result.x_received - result.x_fee)
               /\ h.y_to_owner = pre + (result.y_received - result.y_fee)

\* a harvest charged a fee on a delta that came on top of an older balance
C7_Witness ==
  /\ Ok("harvest_bins")
  /\ FeeSide(result).before > 0
  /\ FeeSide(result).fee > 0
  /\ FeeSide(result).fee < ((FeeSide(result).before + FeeSide(result).received) * config.fee_bps) \div 10000

\* C8: harvest_bins by a signer other than config.bot is accepted only when
\* slot - last_bot_harvest_slot > priority_slots, close_position by such a
\* signer only when slot - last_bot_close_slot > priority_slots; a rejected
\* call changes nothing, the heartbeats included.
C8_FallbackNeedsStaleBot ==
  [][/\ (result'.op = "harvest_bins" /\ result'.err = "" /\ ~result'.is_authorized_bot) =>
          clock.slot - config.last_bot_harvest_slot > config.priority_slots
     /\ (result'.op = "close_position" /\ result'.err = "" /\ ~result'.is_authorized_bot) =>
          clock.slot - config.last_bot_close_slot > config.priority_slots
     /\ (result'.op \in {"harvest_bins", "close_position"} /\ result'.err # "") =>
          UNCHANGED <<clock, ledger>>]_vars

\* a fallback harvest was turned away exactly priority_slots after the bot's
\* last harvest
C8_Witness ==
  /\ result.op = "harvest_bins"
  /\ result.err = "BotNotStale"
  /\ position["p1"].initialized
  /\ clock.slot - config.last_bot_harvest_slot = config.priority_slots

\* C9: an accepted permissionless harvest_bins or close_position pays the
\* caller a keeper tip that is not zero.
C9_FallbackPaysTip ==
  ((Ok("harvest_bins") \/ Ok("close_position")) /\ ~result.is_authorized_bot) =>
    result.x_tip + result.y_tip > 0

\* errors that Anchor raises on the accounts before the handler runs
AccountErrors == {"AccountAlreadyInUse", "AccountNotInitialized"}

\* C10: while config.paused is set, open_position_v2 and open_rover_position
\* are rejected (Paused) and change nothing; harvest_bins, claim_fees and
\* user_close are never rejected for the pause and do what they do when the
\* flag is clear; pause and unpause write config.paused and nothing else.
C10_PauseGatesOpensOnly ==
  [][/\ (config.paused /\ result'.op \in {"open_position_v2", "open_rover_position"}) =>
          /\ result'.err \in {"Paused"} \cup AccountErrors
          /\ UNCHANGED <<clock, ledger>>
     /\ result'.op \in {"pause", "unpause"} =>
          /\ config' = IF result'.err = "" THEN [config EXCEPT !.paused = (result'.op = "pause")]
                       ELSE config
          /\ UNCHANGED <<clock, rover_authority, position, vault, vault_token, lb_pair, meteora, wallets>>
     /\ result'.op \in {"harvest_bins", "claim_fees", "user_close"} => result'.err # "Paused"
     /\ (result'.op = "harvest_bins" /\ result'.err = "") =>
          LET other == [config EXCEPT !.paused = ~config.paused]
              accts == OwnAccts(result'.position, OwnAta(result'.position, result'.signer))
              ok == HarvestBinsOk(other, result'.signer, result'.position, result'.bin_ids, accts)
          IN /\ HarvestBinsError(other, result'.signer, result'.position, result'.bin_ids, accts) = ""
             /\ config' = [ok.config EXCEPT !.paused = config.paused]
             /\ meteora' = ok.meteora /\ vault_token' = ok.vault_token
             /\ position' = ok.position /\ UNCHANGED monke /\ result' = ok.result
     /\ (result'.op = "user_close" /\ result'.err = "") =>
          LET other == [config EXCEPT !.paused = ~config.paused]
              accts == OwnAccts(result'.position, NoAta)
              ok == CloseOk(other, "user_close", result'.signer, result'.position, accts)
          IN /\ UserCloseError(other, result'.signer, result'.position, accts) = ""
             /\ config' = [ok.config EXCEPT !.paused = config.paused]
             /\ meteora' = ok.meteora /\ vault_token' = ok.vault_token
             /\ position' = ok.position /\ vault' = ok.vault /\ UNCHANGED monke /\ result' = ok.result
     /\ (result'.op = "claim_fees" /\ result'.err = "") =>
          /\ config' = config
          /\ result'.x_to_owner = vault_token[result'.position].x + meteora[result'.position].fee_x
          /\ result'.y_to_owner = vault_token[result'.position].y + meteora[result'.position].fee_y
          /\ vault_token'[result'.position] = [x |-> 0, y |-> 0]]_vars

\* a harvest paid out while the program was paused
C10_Witness ==
  /\ Ok("harvest_bins")
  /\ config.paused
  /\ result.x_to_owner + result.y_to_owner > 0

\* operations that charge the protocol fee
FeeOps == {"harvest_bins", "close_position", "user_close"}

\* C11: once the config exists fee_bps changes only in a successful
\* apply_fee; apply_fee succeeds only when a change is pending and the clock
\* has reached fee_change_at, which a successful propose_fee (authority
\* only, rate <= 1000) sets to 86,400 seconds after the proposal together
\* with the proposed rate; a successful apply_fee makes fee_bps the pending
\* rate and clears the pending change; harvests and closes charge fee_bps.
C11_FeeTimelock ==
  [][/\ (config.initialized /\ config'.fee_bps # config.fee_bps) =>
          (result'.op = "apply_fee" /\ result'.err = "")
     /\ (result'.op = "apply_fee" /\ result'.err = "") =>
          /\ config.fee_change_at > 0
          /\ clock.unix_timestamp >= config.fee_change_at
          /\ config' = [config EXCEPT !.fee_bps = config.pending_fee_bps,
                                      !.pending_fee_bps = 0, !.fee_change_at = 0]
     /\ (result'.op = "apply_fee" /\ result'.err # "") =>
          /\ (config.fee_change_at = 0 \/ clock.unix_timestamp < config.fee_change_at)
          /\ UNCHANGED <<clock, ledger>>
     /\ (result'.op = "propose_fee" /\ result'.err = "") =>
          /\ result'.signer = config.authority
          /\ result'.value <= 1000
          /\ config' = [config EXCEPT !.pending_fee_bps = result'.value,
                                      !.fee_change_at = clock.unix_timestamp + 86400]
     /\ (config.initialized /\ <<config'.pending_fee_bps, config'.fee_change_at>>
                                # <<config.pending_fee_bps, config.fee_change_at>>) =>
          (result'.op \in {"propose_fee", "apply_fee", "cancel_pending_fee"} /\ result'.err = "")
     /\ (result'.op \in FeeOps /\ result'.err = "") =>
          FeeSide(result').fee = ((FeeSide(result').received
                                   + (IF result'.op = "harvest_bins" THEN 0
                                      ELSE FeeSide(result').before)) * config.fee_bps) \div 10000]_vars

\* a proposed rate of 1000 was applied 86,400 seconds after its proposal
C11_Witness ==
  /\ result.op = "apply_fee" /\ result.err = ""
  /\ clock.unix_timestamp = 86400
  /\ config.fee_bps = 1000
  /\ config.fee_change_at = 0

\* C12: cancel_pending_fee (cancel_pending_revenue_dest) succeeds only for
\* the authority and only while a change is pending; it clears the pending
\* change and leaves fee_bps (revenue_dest) as it was; apply_fee
\* (apply_revenue_dest) succeeds only while a change is pending, and a change
\* becomes pending only in a successful proposal by the authority.
C12_CancelKeepsActive ==
  [][/\ (result'.op = "cancel_pending_fee" /\ result'.err = "") =>
          /\ result'.signer = config.authority
          /\ config.fee_change_at > 0
          /\ config' = [config EXCEPT !.pending_fee_bps = 0, !.fee_change_at = 0]
     /\ (result'.op = "cancel_pending_fee" /\ result'.err # "") =>
          /\ result'.err \in {"Unauthorized", "NoPendingFeeChange"}
          /\ result'.err = "NoPendingFeeChange" => config.fee_change_at = 0
          /\ UNCHANGED <<clock, ledger>>
     /\ (result'.op = "apply_fee" /\ config.fee_change_at = 0) =>
          (result'.err = "NoPendingFeeChange" /\ UNCHANGED <<clock, ledger>>)
     /\ (config.initialized /\ config.fee_change_at = 0 /\ config'.fee_change_at # 0) =>
          (result'.op = "propose_fee" /\ result'.err = "" /\ result'.signer = config.authority)
     /\ (result'.op = "cancel_pending_revenue_dest" /\ result'.err = "") =>
          /\ result'.signer = config.authority
          /\ rover_authority.revenue_dest_change_at > 0
          /\ rover_authority' = [rover_authority EXCEPT !.pending_revenue_dest = DefaultPubkey,
                                                        !.revenue_dest_change_at = 0]
     /\ (result'.op = "cancel_pending_revenue_dest" /\ result'.err # "") =>
          /\ result'.err \in {"Unauthorized", "NoPendingFeeChange", "AccountNotInitialized"}
          /\ result'.err = "NoPendingFeeChange" => rover_authority.revenue_dest_change_at = 0
          /\ UNCHANGED <<clock, ledger>>
     /\ (result'.op = "apply_revenue_dest" /\ rover_authority.revenue_dest_change_at = 0) =>
          (result'.err # "" /\ UNCHANGED <<clock, ledger>>)
     /\ (rover_authority.initialized /\ rover_authority.revenue_dest_change_at = 0
           /\ rover_authority'.revenue_dest_change_at # 0) =>
          (result'.op = "propose_revenue_dest" /\ result'.err = ""
           /\ result'.signer = config.authority)]_vars

\* a pending rate of 1000 was cancelled before its timelock ran out and the
\* rate is still 30
C12_Witness ==
  /\ result.op = "cancel_pending_fee" /\ result.err = ""
  /\ clock.unix_timestamp = 43200
  /\ config.fee_bps = 30
  /\ config.fee_change_at = 0

\* C13: once the rover authority exists revenue_dest changes only in a
\* successful apply_revenue_dest, which needs a pending change whose
\* timestamp the clock has reached; a successful propose_revenue_dest
\* (authority only) stores its argument and the timestamp 86,400 seconds
\* ahead; a successful apply makes revenue_dest the pending destination
\* and clears the pending change; every successful sweep_rover pays all
\* sweepable lamports to the current revenue_dest and to no other account.
C13_RevenueDestTimelock ==
  [][/\ (rover_authority.initialized
           /\ rover_authority'.revenue_dest # rover_authority.revenue_dest) =>
          (result'.op = "apply_revenue_dest" /\ result'.err = "")
     /\ (result'.op = "apply_revenue_dest" /\ result'.err = "") =>
          /\ rover_authority.revenue_dest_change_at > 0
          /\ clock.unix_timestamp >= rover_authority.revenue_dest_change_at
          /\ rover_authority' =
               [rover_authority EXCEPT !.revenue_dest = rover_authority.pending_revenue_dest,
                                       !.pending_revenue_dest = DefaultPubkey,
                                       !.revenue_dest_change_at = 0]
     /\ (result'.op = "apply_revenue_dest" /\ result'.err # "") => UNCHANGED <<clock, ledger>>
     /\ (result'.op = "propose_revenue_dest" /\ result'.err = "") =>
          /\ result'.signer = config.authority
          /\ rover_authority' =
               [rover_authority EXCEPT !.pending_revenue_dest = result'.recipient,
                                       !.revenue_dest_change_at = clock.unix_timestamp + 86400]
     /\ (rover_authority.initialized
           /\ <<rover_authority'.pending_revenue_dest, rover_authority'.revenue_dest_change_at>>
              # <<rover_authority.pending_revenue_dest, rover_authority.revenue_dest_change_at>>) =>
          (result'.op \in {"propose_revenue_dest", "apply_revenue_dest",
                           "cancel_pending_revenue_dest"} /\ result'.err = "")
     /\ (result'.op = "sweep_rover" /\ result'.err = "") =>
          /\ result'.recipient = rover_authority.revenue_dest
          /\ result'.lamports = wallets.rover_lamports
          /\ wallets' = [wallets EXCEPT !.rover_lamports = 0,
                                        !.dest[rover_authority.revenue_dest] =
                                           @ + wallets.rover_lamports]
     /\ wallets'.dest # wallets.dest => (result'.op = "sweep_rover" /\ result'.err = "")]_vars

\* a sweep paid the old destination while a new one was pending, half way
\* through its timelock
C13_Witness ==
  /\ result.op = "sweep_rover" /\ result.err = ""
  /\ result.recipient = "dist_pool"
  /\ rover_authority.pending_revenue_dest = "pool_a"
  /\ clock.unix_timestamp = 43200
  /\ wallets.dest["dist_pool"] > 0

\* C14: when an emergency close is pending for an open position and the clock
\* has reached emergency_close_at, apply_emergency_close on it with the
\* accounts of its vault is accepted from any caller, whatever the Meteora
\* position holds; an accepted apply pays both vault balances in full to
\* the position's owner, charges no fee and no tip, removes the Position and
\* the Vault, clears the pending close, and leaves the pool untouched.
C14_EmergencyCloseUnwinds ==
  /\ [](\A p \in PositionKeys :
          (/\ config.emergency_close_at > 0
           /\ clock.unix_timestamp >= config.emergency_close_at
           /\ config.pending_emergency_close = p
           /\ position[p].initialized /\ vault[p].initialized) =>
          \A caller \in {Keeper, Bot, Admin} \cup Users :
             ApplyEmergencyCloseError(caller, p, AcctsOf(p)) = "")
  /\ [][(result'.op = "apply_emergency_close" /\ result'.err = "") =>
          LET p == result'.position
          IN /\ result'.from_vault = p
             /\ result'.recipient = position[p].owner
             /\ result'.x_to_owner = vault_token[p].x
             /\ result'.y_to_owner = vault_token[p].y
             /\ result'.x_fee = 0 /\ result'.y_fee = 0
             /\ result'.x_tip = 0 /\ result'.y_tip = 0
             /\ result'.x_to_protocol = 0 /\ result'.y_to_protocol = 0
             /\ vault_token' = [vault_token EXCEPT ![p] = [x |-> 0, y |-> 0]]
             /\ position' = [position EXCEPT ![p] = NoPosition]
             /\ vault' = [vault EXCEPT ![p] = NoVault]
             /\ config' = [config EXCEPT !.pending_emergency_close = NoPositionKey,
                                         !.emergency_close_at = 0]
             /\ UNCHANGED <<clock, rover_authority, lb_pair, meteora, wallets>>]_vars

\* a keeper applied the close of a position that still had its liquidity in
\* the pool and both tokens in its vault
C14_Witness ==
  /\ result.op = "apply_emergency_close" /\ result.err = ""
  /\ result.signer = Keeper
  /\ result.x_to_owner > 0 /\ result.y_to_owner > 0
  /\ meteora[result.position].exists
  /\ meteora[result.position].liq_x[1] > 0
  /\ ~position[result.position].initialized

\* C15: apply_emergency_close succeeds only when a close is pending, the
\* clock has reached emergency_close_at and the position is the pending
\* one; a rejected apply changes nothing; propose_emergency_close succeeds
\* only for the authority and stores the named position with the timestamp
\* 86,400 seconds ahead; the pending close changes in no other way.
C15_EmergencyCloseGated ==
  [][/\ (result'.op = "apply_emergency_close" /\ result'.err = "") =>
          /\ config.emergency_close_at > 0
          /\ clock.unix_timestamp >= config.emergency_close_at
          /\ result'.position = config.pending_emergency_close
     /\ (result'.op = "apply_emergency_close" /\ result'.err # "") => UNCHANGED <<clock, ledger>>
     /\ (result'.op = "propose_emergency_close" /\ result'.err = "") =>
          /\ result'.signer = config.authority
          /\ config' = [config EXCEPT !.pending_emergency_close = result'.position,
                                      !.emergency_close_at = clock.unix_timestamp + 86400]
     /\ (result'.op = "propose_emergency_close" /\ result'.err # "") =>
          UNCHANGED <<clock, ledger>>
     /\ (config.initialized
           /\ <<config'.pending_emergency_close, config'.emergency_close_at>>
              # <<config.pending_emergency_close, config.emergency_close_at>>) =>
          (result'.op \in {"propose_emergency_close", "apply_emergency_close"}
           /\ result'.err = "")
     /\ \A p \in PositionKeys :
          (position[p].initialized /\ ~position'[p].initialized) =>
            (result'.op \in {"close_position", "user_close", "apply_emergency_close"}
             /\ result'.err = "" /\ result'.position = p)]_vars

\* an apply was turned away 86,400 seconds after a first proposal because a
\* later proposal had restarted the timelock
C15_Witness ==
  /\ result.op = "apply_emergency_close"
  /\ result.err = "EmergencyCloseTimelockNotExpired"
  /\ clock.unix_timestamp = 86400
  /\ config.emergency_close_at > 86400

\* C16: fee_bps <= 1000, pending_fee_bps <= 1000 and keeper_tip_bps <= 5000
\* in every reachable state; a call rejected with FeeTooHigh is an
\* initialize, propose_fee or update_keeper_tip_bps and changes nothing, and
\* an accepted propose_fee carries a rate of at most 1000.
C16_RatesBounded ==
  /\ [](config.fee_bps <= 1000 /\ config.pending_fee_bps <= 1000
         /\ config.keeper_tip_bps <= 5000)
  /\ [][/\ result'.err = "FeeTooHigh" =>
              /\ result'.op \in {"initialize", "propose_fee", "update_keeper_tip_bps"}
              /\ UNCHANGED <<clock, ledger>>
        /\ (result'.op = "propose_fee" /\ result'.err = "") => result'.value <= 1000]_vars

\* a tip rate above the cap was refused while fee and tip stand at their caps
C16_Witness ==
  /\ result.op = "update_keeper_tip_bps" /\ result.err = "FeeTooHigh"
  /\ config.keeper_tip_bps = 5000
  /\ config.fee_bps = 1000

\* C17: every Position record has min_bin_id <= max_bin_id and a width of at
\* most 70 bins, whichever of open_position_v2, open_rover_position and
\* open_fee_rover created it; an accepted open stores the range it was asked
\* for or computed, and a rejected open creates nothing.
C17_RangeBounded ==
  /\ [](\A p \in PositionKeys :
          position[p].initialized =>
            /\ position[p].min_bin_id <= position[p].max_bin_id
            /\ position[p].max_bin_id - position[p].min_bin_id + 1 <= 70)
  /\ [][/\ (result'.op \in {"open_position_v2", "open_rover_position", "open_fee_rover"}
              /\ result'.err = "") =>
             /\ ~position[result'.position].initialized
             /\ position'[result'.position].initialized
             /\ position'[result'.position].min_bin_id = result'.min_bin_id
             /\ position'[result'.position].max_bin_id = result'.max_bin_id
             /\ result'.min_bin_id <= result'.max_bin_id
             /\ result'.max_bin_id - result'.min_bin_id + 1 <= 70
        /\ (result'.op \in {"open_position_v2", "open_rover_position", "open_fee_rover"}
              /\ result'.err # "") => UNCHANGED <<clock, ledger>>
        /\ \A p \in PositionKeys :
             (~position[p].initialized /\ position'[p].initialized) =>
               (result'.op \in {"open_position_v2", "open_rover_position", "open_fee_rover"}
                /\ result'.err = "" /\ result'.position = p)]_vars

\* a user position and a fee rover position of 70 bins each are open
C17_Witness ==
  /\ result.op = "open_fee_rover" /\ result.err = ""
  /\ position["p1"].initialized
  /\ position["p1"].max_bin_id - position["p1"].min_bin_id + 1 = 70
  /\ position["p2"].initialized
  /\ position["p2"].max_bin_id - position["p2"].min_bin_id + 1 = 70

\* C18: a successful harvest_bins charges floor(delta * fee_bps / 10000) on the
\* converted side (X of a Buy position, Y of a Sell position) and nothing on
\* the other side; on the bot's path the tip is zero and the protocol receives
\* the whole fee; position.harvested_amount and config.total_harvested each
\* grow by the owner's payout on the converted side (a delta of 10000 at
\* 30 bps out of an empty vault: fee 30, owner 9970).
C18_HarvestFeeAndCounters ==
  [][(result'.op = "harvest_bins" /\ result'.err = "") =>
       LET f == FeeSide(result')
           o == OtherSide(result')
           p == result'.position
       IN /\ f.fee = (f.received * config.fee_bps) \div 10000
          /\ o.fee = 0 /\ o.tip = 0 /\ o.to_protocol = 0
          /\ result'.is_authorized_bot => (f.tip = 0 /\ f.to_protocol = f.fee)
          /\ position'[p].harvested_amount = position[p].harvested_amount + f.to_owner
          /\ config'.total_harvested = config.total_harvested + f.to_owner
          /\ (f.received = 10000 /\ f.before = 0 /\ config.fee_bps = 30) =>
               (f.fee = 30 /\ f.to_owner = 9970)]_vars

\* the bot harvested a delta of 10000 at 30 bps: the fee of 30 went to the
\* protocol and both counters stand at the owner's 9970
C18_Witness ==
  /\ Ok("harvest_bins")
  /\ result.is_authorized_bot
  /\ config.fee_bps = 30
  /\ FeeSide(result).received = 10000
  /\ FeeSide(result).to_protocol = 30
  /\ FeeSide(result).to_owner = 9970
  /\ position[result.position].harvested_amount = 9970
  /\ config.total_harvested = 9970

\* C19: from one starting state in which the fallback is open, and for one
\* bin list, a harvest by a fallback caller and a harvest by the bot pay the
\* owner the same amounts, charge the same fee, add the same amount to
\* position.harvested_amount and config.total_harvested and leave the same
\* vault and Meteora position; they differ only in the tip, which the
\* fallback pays out of the fee as floor(fee * keeper_tip_bps / 10000) with
\* the protocol receiving fee - tip (fee 30 at 1000 bps: tip 3, protocol 27)
\* while the bot's tip is zero, and in last_bot_harvest_slot, which only the
\* bot's harvest sets.
C19_FallbackMatchesBot ==
  [][(/\ result'.op = "harvest_bins"
      /\ result'.err = ""
      /\ BotStale(clock.slot, config.last_bot_harvest_slot, config.priority_slots)) =>
       \A agent \in {HarvestBinsOk(config, config.bot, result'.position, result'.bin_ids,
                                    AcctsOf(result'.from_vault))},
          fallback \in {HarvestBinsOk(config, Keeper, result'.position, result'.bin_ids,
                                       AcctsOf(result'.from_vault))} :
       LET r == result'
           taken == IF r.is_authorized_bot THEN agent ELSE fallback
           af == FeeSide(agent.result)
           ff == FeeSide(fallback.result)
       IN /\ r = [taken.result EXCEPT !.signer = r.signer, !.keeper_ata = r.keeper_ata]
          /\ meteora' = taken.meteora
          /\ vault_token' = taken.vault_token
          /\ position' = taken.position
          /\ config' = taken.config
          /\ ff.to_owner = af.to_owner
          /\ ff.fee = af.fee
          /\ OtherSide(fallback.result) = OtherSide(agent.result)
          /\ fallback.position = agent.position
          /\ fallback.vault_token = agent.vault_token
          /\ fallback.meteora = agent.meteora
          /\ fallback.config.total_harvested = agent.config.total_harvested
          /\ fallback.config =
               [agent.config EXCEPT !.last_bot_harvest_slot = config.last_bot_harvest_slot]
          /\ agent.config.last_bot_harvest_slot = clock.slot
          /\ fallback.result =
               [agent.result EXCEPT !.signer = Keeper, !.is_authorized_bot = FALSE,
                                    !.x_tip = fallback.result.x_tip,
                                    !.y_tip = fallback.result.y_tip,
                                    !.x_to_protocol = fallback.result.x_to_protocol,
                                    !.y_to_protocol = fallback.result.y_to_protocol]
          /\ af.tip = 0
          /\ af.to_protocol = af.fee
          /\ ff.tip = (ff.fee * config.keeper_tip_bps) \div 10000
          /\ ff.to_protocol = ff.fee - ff.tip
          /\ (ff.fee = 30 /\ config.keeper_tip_bps = 1000) =>
               (ff.tip = 3 /\ ff.to_protocol = 27)]_vars

\* a fallback caller harvested a delta of 10000 at 30 bps with a tip rate of
\* 1000 bps: tip 3, protocol 27, owner 9970, and the bot's heartbeat is older
\* than the harvest
C19_Witness ==
  /\ Ok("harvest_bins")
  /\ ~result.is_authorized_bot
  /\ config.keeper_tip_bps = 1000
  /\ FeeSide(result).fee = 30
  /\ FeeSide(result).tip = 3
  /\ FeeSide(result).to_protocol = 27
  /\ FeeSide(result).to_owner = 9970
  /\ config.last_bot_harvest_slot < clock.slot

\* C20: a successful close_position or user_close charges
\* floor(B * fee_bps / 10000), B being all the vault holds on the position's
\* side (X for Buy, Y for Sell) once every bin's liquidity has been removed
\* and the swap fees claimed; the owner is paid B - fee on that side and the
\* whole balance of the other side, the protocol receives the whole fee, no
\* tip is paid, and config.total_harvested grows by the owner's payout on
\* the position's side (B = 50000 at 30 bps: fee 150, owner 49850).
C20_CloseFeeOnBalance ==
  [][(result'.op \in {"close_position", "user_close"} /\ result'.err = "") =>
       LET r == result'
           f == FeeSide(r)
           o == OtherSide(r)
           mp == meteora[r.position]
           vt == vault_token[r.from_vault]
           x_balance == vt.x + SumBins(mp.liq_x, 0, MaxBin) + mp.liq_x_above + mp.fee_x
           y_balance == vt.y + SumBins(mp.liq_y, 0, MaxBin) + mp.liq_y_above + mp.fee_y
           B == IF r.side = "Buy" THEN x_balance ELSE y_balance
           other == IF r.side = "Buy" THEN y_balance ELSE x_balance
       IN /\ f.before + f.received = B
          /\ f.fee = (B * config.fee_bps) \div 10000
          /\ f.to_owner = B - f.fee
          /\ f.to_protocol = f.fee
          /\ f.tip = 0
          /\ o.fee = 0 /\ o.tip = 0 /\ o.to_protocol = 0
          /\ o.to_owner = other
          /\ config'.total_harvested = config.total_harvested + f.to_owner
          /\ vault_token'[r.from_vault] = [x |-> 0, y |-> 0]
          /\ (B = 50000 /\ config.fee_bps = 30) => (f.fee = 150 /\ f.to_owner = 49850)]_vars

\* a position was closed at 30 bps with 50000 on its side of the vault:
\* fee 150, owner 49850, counted in total_harvested
C20_Witness ==
  /\ result.op \in {"close_position", "user_close"}
  /\ result.err = ""
  /\ config.fee_bps = 30
  /\ FeeSide(result).before + FeeSide(result).received = 50000
  /\ FeeSide(result).fee = 150
  /\ FeeSide(result).to_protocol = 150
  /\ FeeSide(result).to_owner = 49850
  /\ config.total_harvested >= 49850
  /\ ~position[result.position].initialized

\* C21: while config.bot_paused is set, close_position signed by config.bot
\* is rejected with BotPaused and never succeeds; harvest_bins by the bot or
\* by a fallback caller, claim_fees, user_close and close_position by a
\* fallback caller are never rejected for it and do exactly what they do when
\* the flag is clear; the flag is written by bot_pause and bot_unpause only,
\* which leave config.paused alone, and the BotPaused rejection does not
\* depend on config.paused.
C21_BotPauseGatesBotCloseOnly ==
  /\ [](\A p \in PositionKeys :
          (config.bot_paused /\ position[p].initialized /\ vault[p].initialized) =>
            \A paused \in BOOLEAN :
              ClosePositionError([config EXCEPT !.paused = paused], config.bot, p,
                                 OwnAccts(p, NoAta)) = "BotPaused")
  /\ [][/\ (result'.op = "close_position" /\ result'.err = "" /\ result'.is_authorized_bot) =>
             ~config.bot_paused
        /\ result'.err = "BotPaused" =>
             /\ result'.op = "close_position"
             /\ config.bot_paused
             /\ UNCHANGED <<clock, ledger>>
        /\ result'.op \in {"bot_pause", "bot_unpause"} =>
             /\ config' = IF result'.err = ""
                          THEN [config EXCEPT !.bot_paused = (result'.op = "bot_pause")]
                          ELSE config
             /\ UNCHANGED <<clock, rover_authority, position, vault, vault_token, lb_pair,
                            meteora, wallets>>
        /\ result'.op \notin {"bot_pause", "bot_unpause"} =>
             config'.bot_paused = config.bot_paused
        /\ (result'.op = "harvest_bins" /\ result'.err = "") =>
             \A accts \in {OwnAccts(result'.position, OwnAta(result'.position, result'.signer))},
                other \in {[config EXCEPT !.bot_paused = ~config.bot_paused]} :
               \A ok \in {HarvestBinsOk(other, result'.signer, result'.position,
                                        result'.bin_ids, accts)} :
                 /\ HarvestBinsError(other, result'.signer, result'.position,
                                     result'.bin_ids, accts) = ""
                 /\ config' = [ok.config EXCEPT !.bot_paused = config.bot_paused]
                 /\ meteora' = ok.meteora /\ vault_token' = ok.vault_token
                 /\ position' = ok.position /\ UNCHANGED monke /\ result' = ok.result
        /\ (result'.op \in {"close_position", "user_close"} /\ result'.err = ""
            /\ ~result'.is_authorized_bot) =>
             \A accts \in {OwnAccts(result'.position, NoAta)},
                other \in {[config EXCEPT !.bot_paused = ~config.bot_paused]} :
               \A ok \in {CloseOk(other, result'.op, result'.signer, result'.position, accts)} :
                 /\ IF result'.op = "user_close"
                    THEN UserCloseError(other, result'.signer, result'.position, accts) = ""
                    ELSE ClosePositionError(other, result'.signer, result'.position, accts) = ""
                 /\ config' = [ok.config EXCEPT !.bot_paused = config.bot_paused]
                 /\ meteora' = ok.meteora /\ vault_token' = ok.vault_token
                 /\ position' = ok.position /\ vault' = ok.vault /\ UNCHANGED monke /\ result' = ok.result
        /\ (result'.op = "claim_fees" /\ result'.err = "") =>
             /\ config' = config
             /\ result'.x_to_owner = vault_token[result'.position].x + meteora[result'.position].fee_x
             /\ result'.y_to_owner = vault_token[result'.position].y + meteora[result'.position].fee_y]_vars

\* the bot's close was turned away for the pause while the position is open
\* and new deposits are not paused
C21_Witness ==
  /\ result.op = "close_position"
  /\ result.err = "BotPaused"
  /\ config.bot_paused
  /\ ~config.paused
  /\ position["p1"].initialized

\* C22: user_close succeeds only when the signer is the position's owner, and
\* then does what it does under any other value of config.paused,
\* config.bot_paused and the bot's heartbeats; naming an open position, a
\* signer other than its owner is rejected with Unauthorized and nothing
\* changes; no signer can close a position owned by rover_authority.
C22_UserCloseOwnerOnly ==
  /\ [](\A p \in PositionKeys, signer \in Signers :
          (position[p].initialized /\ vault[p].initialized) =>
            /\ signer # position[p].owner =>
                 UserCloseError(config, signer, p, OwnAccts(p, NoAta)) = "Unauthorized"
            /\ position[p].owner = RoverAuthorityKey =>
                 UserCloseError(config, signer, p, OwnAccts(p, NoAta)) # "")
  /\ [][result'.op = "user_close" =>
          /\ result'.err # "" => UNCHANGED <<clock, ledger>>
          /\ result'.err = "" =>
               /\ result'.signer = position[result'.position].owner
               /\ result'.signer # RoverAuthorityKey
               /\ \A accts \in {OwnAccts(result'.position, NoAta)},
                     paused \in BOOLEAN, bot_paused \in BOOLEAN,
                     heartbeat \in {0, clock.slot} :
                    \A other \in {[config EXCEPT !.paused = paused, !.bot_paused = bot_paused,
                                                 !.last_bot_harvest_slot = heartbeat,
                                                 !.last_bot_close_slot = heartbeat,
                                                 !.last_bot_sweep_slot = heartbeat]} :
                    \A ok \in {CloseOk(other, "user_close", result'.signer,
                                       result'.position, accts)} :
                      /\ UserCloseError(other, result'.signer, result'.position, accts) = ""
                      /\ config' = [ok.config EXCEPT
                                      !.paused = config.paused,
                                      !.bot_paused = config.bot_paused,
                                      !.last_bot_harvest_slot = config.last_bot_harvest_slot,
                                      !.last_bot_close_slot = config.last_bot_close_slot,
                                      !.last_bot_sweep_slot = config.last_bot_sweep_slot]
                      /\ ok.config.paused = paused
                      /\ ok.config.bot_paused = bot_paused
                      /\ ok.config.last_bot_harvest_slot = heartbeat
                      /\ ok.config.last_bot_close_slot = heartbeat
                      /\ meteora' = ok.meteora /\ vault_token' = ok.vault_token
                      /\ position' = ok.position /\ vault' = ok.vault
                      /\ result' = ok.result]_vars

\* with both pause flags set a user_close is turned away; the owner's
\* position has been closed and the rover's position stays open
C22_Witness ==
  /\ result.op = "user_close"
  /\ result.err = "Unauthorized"
  /\ config.paused
  /\ config.bot_paused
  /\ config.total_positions = 2
  /\ ~position["p1"].initialized
  /\ position["p2"].initialized
  /\ position["p2"].owner = RoverAuthorityKey

CloseOps == {"close_position", "user_close", "apply_emergency_close"}
OpenOps == {"open_position_v2", "open_rover_position", "open_fee_rover"}

\* C23 (as the code has it): a successful close_position, user_close or
\* apply_emergency_close destroys the Position and Vault records and leaves
\* both vault token balances at zero; the records are destroyed by nothing
\* else; while no Position record exists under a key, every harvest_bins,
\* claim_fees, close_position, user_close and apply_emergency_close naming it
\* is rejected, whoever signs; a record appears under a key again only when a
\* new position is opened under it.
C23_ClosedUntilReopened ==
  /\ [](\A p \in PositionKeys :
          ~position[p].initialized =>
            /\ ~vault[p].initialized
            /\ \A signer \in Signers, q \in PositionKeys :
                 /\ \A bin_ids \in ShortLists :
                      HarvestBinsError(config, signer, p, bin_ids, AcctsOf(q)) # ""
                 /\ ClaimFeesError(signer, p, AcctsOf(q)) # ""
                 /\ ClosePositionError(config, signer, p, AcctsOf(q)) # ""
                 /\ UserCloseError(config, signer, p, AcctsOf(q)) # ""
                 /\ ApplyEmergencyCloseError(signer, p, AcctsOf(q)) # "")
  /\ [][/\ (result'.op \in CloseOps /\ result'.err = "") =>
             /\ position'[result'.position] = NoPosition
             /\ vault'[result'.position] = NoVault
             /\ result'.from_vault = result'.position
             /\ vault_token'[result'.position] = [x |-> 0, y |-> 0]
        /\ (result'.op \in PositionOps /\ result'.err = "") =>
             /\ position[result'.position].initialized
             /\ vault[result'.position].initialized
        /\ \A p \in PositionKeys :
             /\ (position[p].initialized /\ ~position'[p].initialized) =>
                  (result'.op \in CloseOps /\ result'.err = "" /\ result'.position = p)
             /\ (~position[p].initialized /\ position'[p].initialized) =>
                  (result'.op \in OpenOps /\ result'.err = "" /\ result'.position = p)]_vars

\* a harvest naming the key of a closed position was turned away
C23_Witness ==
  /\ result.op = "harvest_bins"
  /\ result.err = "AccountNotInitialized"
  /\ config.total_positions = 1
  /\ config.total_harvested > 0
  /\ ~position["p1"].initialized
  /\ ~vault["p1"].initialized
  /\ vault_token["p1"] = [x |-> 0, y |-> 0]

\* C23 as stated: once a position has been closed, every later harvest_bins,
\* claim_fees, close_position, user_close and apply_emergency_close naming it
\* is rejected. (Positions are opened under the key p1 only, one at a time,
\* so a second open means that a position under p1 was closed before.)
C23_NeverAfterClose ==
  (config.total_positions > 1) => ~(result.op \in PositionOps /\ result.err = "")

\* C24: claim_fees succeeds only for the position's owner; it charges no fee
\* and pays no tip, pays the owner everything it takes out of the vault (the
\* swap fees claimed from the pool and what the vault held before), and
\* leaves the liquidity in the pool, the Position and Vault records and the
\* config as they are; a rejected call changes nothing.
C24_ClaimFeesOwnerOnlyNoFee ==
  /\ [](\A p \in PositionKeys, signer \in Signers :
          (position[p].initialized /\ vault[p].initialized /\ signer # position[p].owner) =>
            ClaimFeesError(signer, p, OwnAccts(p, NoAta)) = "Unauthorized")
  /\ [][result'.op = "claim_fees" =>
          /\ result'.err # "" => UNCHANGED <<clock, ledger>>
          /\ result'.err = "" =>
               LET p == result'.position
               IN /\ result'.signer = position[p].owner
                  /\ result'.recipient = position[p].owner
                  /\ result'.from_vault = p
                  /\ result'.x_fee = 0 /\ result'.y_fee = 0
                  /\ result'.x_tip = 0 /\ result'.y_tip = 0
                  /\ result'.x_to_protocol = 0 /\ result'.y_to_protocol = 0
                  /\ result'.x_to_owner = vault_token[p].x + meteora[p].fee_x
                  /\ result'.y_to_owner = vault_token[p].y + meteora[p].fee_y
                  /\ vault_token' = [vault_token EXCEPT ![p] = [x |-> 0, y |-> 0]]
                  /\ meteora' = [meteora EXCEPT ![p].fee_x = 0, ![p].fee_y = 0]
                  /\ meteora'[p].exists
                  /\ UNCHANGED <<clock, config, rover_authority, position, vault, lb_pair,
                                 wallets>>]_vars

\* the owner claimed the swap fees of a position that has been harvested
\* and still has liquidity in the pool
C24_Witness ==
  /\ Ok("claim_fees")
  /\ result.signer = "alice"
  /\ result.x_received = 77
  /\ result.x_to_owner = 77
  /\ position["p1"].harvested_amount > 0
  /\ config.total_harvested = position["p1"].harvested_amount
  /\ SumBins(meteora["p1"].liq_x, 0, MaxBin) + SumBins(meteora["p1"].liq_y, 0, MaxBin) > 0

\* instructions behind the AdminOnly constraint
AdminOps ==
  {"pause", "unpause", "bot_pause", "bot_unpause", "update_bot", "update_keeper_tip_bps",
   "update_priority_slots", "propose_fee", "cancel_pending_fee", "transfer_authority",
   "propose_emergency_close"}

\* C25: once the config exists config.authority changes only in a successful
\* accept_authority, which succeeds only for the signer stored in
\* pending_authority (never the null key), makes that signer the authority
\* and clears pending_authority; transfer_authority succeeds only for the
\* authority and writes pending_authority and nothing else, so the authority
\* can replace or withdraw a nominee; admin instructions succeed only for
\* the signer that is config.authority at that moment, nominee pending or
\* not, so an authority that has been replaced is rejected from then on.
C25_TwoStepAuthority ==
  /\ [](config.initialized => config.authority \in Signers)
  /\ [](\A signer \in Signers :
          AcceptAuthorityError(signer) = "" <=>
            (signer = config.pending_authority /\ config.pending_authority # DefaultPubkey))
  /\ [][/\ (config.initialized /\ config'.authority # config.authority) =>
             (result'.op = "accept_authority" /\ result'.err = "")
        /\ result'.op = "accept_authority" =>
             IF result'.err = ""
             THEN /\ result'.signer = config.pending_authority
                  /\ config.pending_authority # DefaultPubkey
                  /\ config' = [config EXCEPT !.authority = result'.signer,
                                              !.pending_authority = DefaultPubkey]
                  /\ UNCHANGED <<clock, rover_authority, position, vault, vault_token,
                                 lb_pair, meteora, wallets>>
             ELSE UNCHANGED <<clock, ledger>>
        /\ result'.op = "transfer_authority" =>
             IF result'.err = ""
             THEN /\ result'.signer = config.authority
                  /\ config' = [config EXCEPT !.pending_authority = result'.recipient]
                  /\ UNCHANGED <<clock, rover_authority, position, vault, vault_token,
                                 lb_pair, meteora, wallets>>
             ELSE /\ result'.err = "Unauthorized"
                  /\ UNCHANGED <<clock, ledger>>
        /\ (result'.op \in AdminOps /\ result'.err = "") =>
             /\ result'.signer = config.authority
             /\ config'.authority = config.authority
        /\ (result'.op \in AdminOps /\ result'.err = "Unauthorized") =>
             UNCHANGED <<clock, ledger>>]_vars

\* alice has accepted the authority and, as the authority, has named bob,
\* who has not accepted; her own admin call went through
C25_Witness ==
  /\ config.authority = "alice"
  /\ config.pending_authority = "bob"
  /\ Ok("pause")
  /\ result.signer = "alice"

\* C26: config.priority_slots is at most 9000 in every state:
\* update_priority_slots rejects a larger value (PrioritySlotsExceedMax) and
\* nothing else writes the field after initialize; so whenever more than 9000
\* slots have passed since last_bot_harvest_slot, no harvest_bins call is
\* rejected for BotNotStale and a harvest of an open position by any signer
\* goes through, and the same holds for close_position and
\* last_bot_close_slot, whatever the authority has set.
C26_FallbackCannotBeDisabled ==
  /\ [](config.priority_slots <= 9000)
  /\ [](\A signer \in Signers, p \in PositionKeys :
          /\ clock.slot - config.last_bot_harvest_slot > 9000 =>
               /\ \A bin_ids \in ShortLists, q \in PositionKeys :
                    HarvestBinsError(config, signer, p, bin_ids, AcctsOf(q)) # "BotNotStale"
               /\ (position[p].initialized /\ vault[p].initialized /\ meteora[p].exists) =>
                    HarvestBinsError(config, signer, p, <<position[p].min_bin_id>>,
                                     OwnAccts(p, OwnAta(p, Keeper))) = ""
          /\ clock.slot - config.last_bot_close_slot > 9000 =>
               /\ \A q \in PositionKeys :
                    ClosePositionError(config, signer, p, AcctsOf(q)) # "BotNotStale"
               /\ (position[p].initialized /\ vault[p].initialized /\ meteora[p].exists
                   /\ signer # config.bot) =>
                    ClosePositionError(config, signer, p, OwnAccts(p, NoAta)) = "")
  /\ [][/\ result'.op = "update_priority_slots" =>
             IF result'.err = ""
             THEN /\ result'.signer = config.authority
                  /\ result'.value <= 9000
                  /\ config' = [config EXCEPT !.priority_slots = result'.value]
             ELSE /\ result'.err \in {"Unauthorized", "PrioritySlotsExceedMax"}
                  /\ UNCHANGED <<clock, ledger>>
        /\ (config.initialized /\ config'.priority_slots # config.priority_slots) =>
             (result'.op = "update_priority_slots" /\ result'.err = "")]_vars

\* with the threshold at its maximum a fallback caller harvested once more
\* than 9000 slots had passed since the bot's last harvest
C26_Witness ==
  /\ Ok("harvest_bins")
  /\ ~result.is_authorized_bot
  /\ config.priority_slots = 9000
  /\ clock.slot - config.last_bot_harvest_slot > 9000

\* C27: every successful harvest_bins by a caller other than the bot was
\* given a tip account: a token account of the converted-side token (X for
\* Buy, Y for Sell) that is none of the protocol's fee accounts and none of
\* the owner's payout accounts.
C27_FallbackNeedsTipAccount ==
  (Ok("harvest_bins") /\ ~result.is_authorized_bot) =>
    /\ result.keeper_ata # NoAta
    /\ result.keeper_ata.mint = (IF result.side = "Buy" THEN "X" ELSE "Y")
    /\ result.keeper_ata.key \notin ProtectedAtaKeys

\* C28: every successful open_rover_position creates a Sell position owned
\* by rover_authority whose range starts just above the pool's active bin and
\* depends on the pool alone: it is the range the call would have produced
\* with any other accepted value of the caller's bin_step argument.
C28_RoverRangeFromPoolOnly ==
  Ok("open_rover_position") =>
    /\ position[result.position].owner = RoverAuthorityKey
    /\ position[result.position].side = "Sell"
    /\ result.min_bin_id = lb_pair.active_id + 1
    /\ \A bin_step \in WidthSteps :
         bin_step >= MIN_ROVER_BIN_STEP =>
           result.max_bin_id = result.min_bin_id + RoverWidth(bin_step) - 1

\* ------------------------------------------------- scenario: fee rover
\* a rover identity holding fee tokens, a depositor and the agent opening rover
\* positions on one key, with the deposit pause set and cleared
FeeRoverAmounts == {0, MIN_ROVER_DEPOSIT - 1, MIN_ROVER_DEPOSIT}

NextFeeRover ==
  \/ Initialize(Admin, Bot, 30)
  \/ InitializeRover(Admin, "dist_pool")
  \/ FundRover(0, MIN_ROVER_DEPOSIT)
  \/ Pause(Admin)
  \/ Unpause(Admin)
  \/ \E amount \in FeeRoverAmounts, bin_step \in WidthSteps :
        /\ ~position["p2"].initialized
        /\ OpenRoverPosition(Keeper, "p2", amount, bin_step)
  \/ \E bot \in Callers, amount \in FeeRoverAmounts, bin_step \in WidthSteps :
        /\ ~position["p2"].initialized
        /\ OpenFeeRover(bot, "p2", amount, bin_step)
  \/ ClosePosition(Bot, "p2", OwnAccts("p2", NoAta))

SpecFeeRover == Init /\ [][NextFeeRover]_vars

\* C29: open_fee_rover is accepted only from config.bot; an accepted call writes
\* exactly the position, vault, Meteora liquidity and counters that an accepted
\* open_rover_position writes for the same pool state, amount and bin_step, and
\* takes the deposit from the rover identity's own token account
C29_FeeRoverMatchesRover ==
  [][\A bot \in Callers, amount \in FeeRoverAmounts, bin_step \in WidthSteps :
       OpenFeeRover(bot, "p2", amount, bin_step) =>
         /\ bot # config.bot => result'.err # ""
         /\ result'.err # "" => UNCHANGED ledger
         /\ result'.err = "" =>
              /\ OpenRoverPositionCommit("p2", amount, bin_step)
              /\ wallets' = [wallets EXCEPT !.rover_token_x = @ - amount]]_vars

\* an accepted fee rover over 69 bins above the active bin, paid from the rover
\* identity's tokens
C29_Witness ==
  /\ result.op = "open_fee_rover" /\ result.err = "" /\ result.signer = Bot
  /\ position["p2"].owner = RoverAuthorityKey /\ position["p2"].side = "Sell"
  /\ position["p2"].min_bin_id = lb_pair.active_id + 1
  /\ position["p2"].max_bin_id = lb_pair.active_id + 69
  /\ position["p2"].initial_amount = MIN_ROVER_DEPOSIT
  /\ wallets.rover_token_x = 0
  /\ rover_authority.total_rover_positions = 1

\* C29 as stated: the source of the deposit is the only difference, so every
\* accepted open_fee_rover is a call open_rover_position accepts from a depositor
C29_OnlyDepositSourceDiffers ==
  [][\A bot \in Callers, amount \in FeeRoverAmounts, bin_step \in WidthSteps :
       (OpenFeeRover(bot, "p2", amount, bin_step) /\ result'.err = "")
         => OpenRoverPositionError(Keeper, "p2", amount, bin_step) = ""]_vars

\* ------------------------------------------------- scenario: sweeping
\* lamports arrive at the rover identity and are swept by the agent, the
\* authority and a stranger, to the stored destination and to another account,
\* while slots pass
Sweepers == {Admin, Bot, Keeper}

NextSweep ==
  \/ AdvanceClock(SlotStep, 0)
  \/ Initialize(Admin, Bot, 30)
  \/ InitializeRover(Admin, "dist_pool")
  \/ \E signer \in {Admin, Bot}, new_bot \in {Bot, Keeper} : UpdateBot(signer, new_bot)
  \/ FundRover(5000, 0)
  \/ \E caller \in Sweepers, d \in {"dist_pool", "pool_a"} : SweepRover(caller, d)

SpecSweep == Init /\ [][NextSweep]_vars

InitCounters ==
  \E full \in BOOLEAN :
    /\ clock = [slot |-> 0, unix_timestamp |-> 0]
    /\ config = [NoConfig EXCEPT
                   !.initialized = TRUE, !.authority = Admin, !.bot = Bot,
                   !.fee_bps = 30, !.priority_slots = 100,
                   !.total_positions = IF full THEN MaxWord - 1 ELSE 0,
                   !.total_volume = IF full THEN MaxWord - MIN_POSITION_AMOUNT - 1 ELSE 0,
                   !.total_harvested = IF full THEN MaxWord - MIN_POSITION_AMOUNT - 5000 ELSE 0]
    /\ rover_authority = [NoRoverAuthority EXCEPT !.initialized = TRUE,
                                                  !.revenue_dest = "dist_pool"]
    /\ position = [p \in PositionKeys |-> NoPosition]
    /\ vault = [p \in PositionKeys |-> NoVault]
    /\ vault_token = [p \in PositionKeys |-> [x |-> 0, y |-> 0]]
    /\ lb_pair = [active_id |-> 0]
    /\ meteora = [p \in PositionKeys |-> NoMeteoraPosition]
    /\ wallets = NoWallets
    /\ MonkeInit
    /\ result = NoResult

NextCounters ==
  \/ AdvanceClock(0, TimeStep)
  \/ Swap(1)
  \/ OpenPositionV2("alice", "p1", MIN_POSITION_AMOUNT, 1, 1, "Sell", 10)
  \/ OpenPositionV2("bob", "p2", MIN_POSITION_AMOUNT, 1, 1, "Sell", 10)
  \/ \E p \in PositionKeys : HarvestBins(Bot, p, <<1>>, OwnAccts(p, NoAta))
  \/ ClosePosition(Bot, "p1", OwnAccts("p1", NoAta))
  \/ UserClose("alice", "p1", OwnAccts("p1", NoAta))
  \/ ProposeEmergencyClose(Admin, "p2")
  \/ ApplyEmergencyClose(Keeper, "p2", AcctsOf("p2"))

SpecCounters == InitCounters /\ [][NextCounters]_vars

\* C31: total_positions, total_volume and total_harvested never decrease, and
\* neither does the harvested_amount of a position that exists; an open adds 1
\* and the deposit, stopping at the top of the word; a harvest or close adds
\* the owner's payout exactly and is not accepted when the sum does not fit
C31_CountersMonotone ==
  [][/\ config'.total_positions >= config.total_positions
     /\ config'.total_volume >= config.total_volume
     /\ config'.total_harvested >= config.total_harvested
     /\ config'.total_positions <= MaxWord /\ config'.total_volume <= MaxWord
     /\ config'.total_harvested <= MaxWord
     /\ \A p \in PositionKeys :
          (position[p].initialized /\ position'[p].initialized) =>
             position'[p].harvested_amount >= position[p].harvested_amount
     /\ (result'.op \in OpenOps /\ result'.err = "") =>
          /\ config'.total_positions = Min({config.total_positions + 1, MaxWord})
          /\ config'.total_volume =
               Min({config.total_volume + result'.deposit_x + result'.deposit_y, MaxWord})
     /\ (result'.op \in {"harvest_bins", "close_position", "user_close"}
         /\ result'.err = "") =>
          \A paid \in {IF result'.side = "Buy" THEN result'.x_to_owner
                       ELSE result'.y_to_owner} :
            /\ config'.total_harvested = config.total_harvested + paid
            /\ result'.op = "harvest_bins" =>
                 position'[result'.position].harvested_amount
                   = position[result'.position].harvested_amount + paid
     /\ (result'.op = "apply_emergency_close" /\ result'.err = "") =>
          /\ config'.total_positions = config.total_positions
          /\ config'.total_volume = config.total_volume
          /\ config'.total_harvested = config.total_harvested
     /\ result'.err # "" => UNCHANGED ledger]_vars

\* both open counters stand at the top of their word and a harvest whose
\* payout does not fit in total_harvested was turned down
C31_Witness ==
  /\ config.total_positions = MaxWord /\ config.total_volume = MaxWord
  /\ config.total_harvested = MaxWord - MIN_POSITION_AMOUNT - 5000 + 9970
  /\ result.op = "harvest_bins" /\ result.err = "Overflow"
  /\ position["p2"].initialized /\ position["p2"].harvested_amount = 0
  /\ vault_token["p2"].y = 0

\* C32: a harvest_bins call that passes authorization and whose removal adds
\* nothing to either vault balance succeeds with any or no tip account: fee, tip
\* and protocol share are 0, the Position record is as before, and when the
\* signer is config.bot last_bot_harvest_slot is set to the current slot
C32_ZeroOutputHarvestSucceeds ==
  [][\A signer \in Callers, bin_ids \in {<<0>>, <<1>>}, ata \in KeeperAtas :
       (/\ HarvestBins(signer, "p1", bin_ids, OwnAccts("p1", ata))
        /\ position["p1"].initialized /\ meteora["p1"].exists
        /\ RemovedX(meteora["p1"], bin_ids[1], bin_ids[1]) = 0
        /\ RemovedY(meteora["p1"], bin_ids[1], bin_ids[1]) = 0
        /\ \/ signer = config.bot
           \/ BotStale(clock.slot, config.last_bot_harvest_slot, config.priority_slots))
       => /\ result'.err = ""
          /\ result'.x_received = 0 /\ result'.y_received = 0
          /\ result'.x_fee = 0 /\ result'.y_fee = 0
          /\ result'.x_tip = 0 /\ result'.y_tip = 0
          /\ result'.x_to_protocol = 0 /\ result'.y_to_protocol = 0
          /\ result'.x_to_owner = vault_token["p1"].x
          /\ result'.y_to_owner = vault_token["p1"].y
          /\ meteora' = meteora
          /\ config'.last_bot_harvest_slot =
               IF signer = config.bot THEN clock.slot ELSE config.last_bot_harvest_slot]_vars

\* a fallback harvest of an emptied bin went through without a tip account
\* while a tip rate was set
C32_Witness ==
  /\ result.op = "harvest_bins" /\ result.err = "" /\ result.signer = Keeper
  /\ result.keeper_ata = NoAta /\ config.keeper_tip_bps = 1000
  /\ result.x_received = 0 /\ result.y_received = 0
  /\ result.x_fee = 0 /\ result.x_tip = 0
  /\ position["p1"].harvested_amount > 0

\* what user_close by alice on p1 would return and pay in the current state
UserCloseNow == CloseOk(config, "user_close", "alice", "p1", OwnAccts("p1", NoAta)).result

\* C33: when claim_fees has just been accepted, a user_close now (after the
\* claim) charges the protocol fee on the removed liquidity alone, a user_close
\* in the state before the claim charges it on vault balance + removed
\* liquidity + swap fees; the fee after the claim is never larger, what the
\* owner receives from claim and close together is never smaller, and both
\* ways pay out the same total; an accepted user_close pays what is computed
C33_ClaimBeforeCloseSavesFee ==
  [][/\ (result'.op = "claim_fees" /\ result'.err = "" /\ result'.position = "p1") =>
          \A alone \in {UserCloseNow}, after \in {UserCloseNow'}, pos \in {position["p1"]} :
            /\ alone.x_fee = IF pos.side = "Buy"
                             THEN FeeOf(vault_token["p1"].x + meteora["p1"].fee_x
                                        + RemovedX(meteora["p1"], pos.min_bin_id, pos.max_bin_id),
                                        config.fee_bps)
                             ELSE 0
            /\ alone.y_fee = IF pos.side = "Sell"
                             THEN FeeOf(vault_token["p1"].y + meteora["p1"].fee_y
                                        + RemovedY(meteora["p1"], pos.min_bin_id, pos.max_bin_id),
                                        config.fee_bps)
                             ELSE 0
            /\ after.x_fee = IF pos.side = "Buy"
                             THEN FeeOf(RemovedX(meteora["p1"], pos.min_bin_id, pos.max_bin_id),
                                        config.fee_bps)
                             ELSE 0
            /\ after.y_fee = IF pos.side = "Sell"
                             THEN FeeOf(RemovedY(meteora["p1"], pos.min_bin_id, pos.max_bin_id),
                                        config.fee_bps)
                             ELSE 0
            /\ after.x_fee <= alone.x_fee /\ after.y_fee <= alone.y_fee
            /\ result'.x_to_owner + after.x_to_owner >= alone.x_to_owner
            /\ result'.y_to_owner + after.y_to_owner >= alone.y_to_owner
            /\ result'.x_to_owner + after.x_to_owner + after.x_fee
                 = alone.x_to_owner + alone.x_fee
            /\ result'.y_to_owner + after.y_to_owner + after.y_fee
                 = alone.y_to_owner + alone.y_fee
     /\ (result'.op = "user_close" /\ result'.err = "") => result' = UserCloseNow]_vars

\* the owner has just claimed the vault balance and the swap fees of a Buy
\* position; closing now costs less than closing before the claim would have
C33_Witness ==
  /\ result.op = "claim_fees" /\ result.err = "" /\ result.side = "Buy"
  /\ result.x_before = 500 /\ result.x_received = 77 /\ result.x_to_owner = 577
  /\ config.fee_bps = 1000
  /\ UserCloseNow.x_fee = 1000
  /\ FeeOf(577 + UserCloseNow.x_before + UserCloseNow.x_received, config.fee_bps) = 1057

\* tokens a Meteora position holds: liquidity in every bin and unclaimed fees
HeldX(mp) == SumBins(mp.liq_x, 0, MaxBin) + mp.liq_x_above + mp.fee_x
HeldY(mp) == SumBins(mp.liq_y, 0, MaxBin) + mp.liq_y_above + mp.fee_y

NextHeartbeat ==
  \/ AdvanceClock(SlotStep, 0)
  \/ Initialize(Admin, Bot, 30)
  \/ InitializeRover(Admin, "dist_pool")
  \/ \E new_bot \in Callers : UpdateBot(Admin, new_bot)
  \/ OpenPositionV2("alice", "p1", MIN_POSITION_AMOUNT, 0, 0, "Buy", 10)
  \/ OpenPositionV2("bob", "p2", MIN_POSITION_AMOUNT, 0, 0, "Buy", 10)
  \/ \E signer \in Callers, p \in PositionKeys :
        HarvestBins(signer, p, <<0>>, OwnAccts(p, OwnAta(p, Keeper)))
  \/ \E signer \in Callers, p \in PositionKeys : ClosePosition(signer, p, OwnAccts(p, NoAta))
  \/ FundRover(5000, 0)
  \/ \E caller \in Callers : SweepRover(caller, "dist_pool")

SpecHeartbeat == Init /\ [][NextHeartbeat]_vars

HeartbeatOps == {"harvest_bins", "close_position", "sweep_rover"}
Heartbeats(cfg) ==
  <<cfg.last_bot_harvest_slot, cfg.last_bot_close_slot, cfg.last_bot_sweep_slot>>

\* C35: each heartbeat is written only by an accepted call of its own
\* instruction signed by config.bot, which sets it to the current slot and
\* leaves the other two; none ever decreases; calls by others, rejected calls
\* and update_bot leave all three; after an accepted agent harvest a
\* permissionless harvest of any open position is BotNotStale, while a
\* permissionless close is judged by last_bot_close_slot as before
C35_HeartbeatsSeparate ==
  [][config.initialized =>
       /\ config'.last_bot_harvest_slot >= config.last_bot_harvest_slot
       /\ config'.last_bot_close_slot >= config.last_bot_close_slot
       /\ config'.last_bot_sweep_slot >= config.last_bot_sweep_slot
       /\ IF result'.op \in HeartbeatOps /\ result'.err = "" /\ result'.signer = config.bot
          THEN /\ result'.op = "harvest_bins" =>
                    Heartbeats(config') = <<clock.slot, config.last_bot_close_slot,
                                            config.last_bot_sweep_slot>>
               /\ result'.op = "close_position" =>
                    Heartbeats(config') = <<config.last_bot_harvest_slot, clock.slot,
                                            config.last_bot_sweep_slot>>
               /\ result'.op = "sweep_rover" =>
                    Heartbeats(config') = <<config.last_bot_harvest_slot,
                                            config.last_bot_close_slot, clock.slot>>
          ELSE Heartbeats(config') = Heartbeats(config)
       /\ (result'.op = "harvest_bins" /\ result'.err = "" /\ result'.signer = config.bot) =>
            \A signer \in Callers \ {config.bot}, q \in PositionKeys :
              position'[q].initialized =>
                /\ HarvestBinsError(config, signer, q, <<0>>,
                                    OwnAccts(q, OwnAta(q, Keeper)))' = "BotNotStale"
                /\ (ClosePositionError(config, signer, q, OwnAccts(q, NoAta))' = "BotNotStale")
                     <=> ~BotStale(clock.slot, config.last_bot_close_slot,
                                   config.priority_slots)]_vars

\* the agent has just harvested p2 at slot 200 and has never closed: a
\* stranger's harvest of p1 has to wait, a stranger's close of p1 does not
C35_Witness ==
  /\ result.op = "harvest_bins" /\ result.err = "" /\ result.signer = Bot
  /\ result.position = "p2" /\ config.bot = Bot
  /\ clock.slot = 2 * SlotStep
  /\ Heartbeats(config) = <<2 * SlotStep, 0, SlotStep>>
  /\ position["p1"].initialized
  /\ HarvestBinsError(config, Keeper, "p1", <<0>>, OwnAccts("p1", OwnAta("p1", Keeper)))
       = "BotNotStale"
  /\ ClosePositionError(config, Keeper, "p1", OwnAccts("p1", NoAta)) = ""

\* ------------------------------------------------- scenario: agent stalled
\* the agent close gate is set and never cleared; a user position and a rover
\* position are open; slots pass for as long as the close heartbeat is fresh;
\* the agent, a stranger and every key that can sign try to close
SlotsPass ==
  /\ ~BotStale(clock.slot, config.last_bot_close_slot, config.priority_slots)
  /\ AdvanceSlots(LongSlotStep)

FallbackClose(p) ==
  /\ ClosePosition(Keeper, p, OwnAccts(p, NoAta))
  /\ result'.err = ""

NextBotStall ==
  \/ SlotsPass
  \/ Initialize(Admin, Bot, 30)
  \/ InitializeRover(Admin, "dist_pool")
  \/ UpdatePrioritySlots(Admin, 9000)
  \/ BotPause(Admin)
  \/ OpenPositionV2("alice", "p1", MIN_POSITION_AMOUNT, 0, 0, "Buy", 10)
  \/ OpenRoverPosition(Keeper, "p2", MIN_ROVER_DEPOSIT, 100)
  \/ \E signer \in Callers, p \in PositionKeys : ClosePosition(signer, p, OwnAccts(p, NoAta))
  \/ \E signer \in Signers : UserClose(signer, "p2", OwnAccts("p2", NoAta))

\* slots keep passing, and some stranger closes a position when that is allowed
SpecBotStall ==
  /\ Init /\ [][NextBotStall]_vars
  /\ WF_vars(SlotsPass)
  /\ \A p \in PositionKeys : WF_vars(FallbackClose(p))

NextStranded ==
  \/ AdvanceClock(0, TimeStep)
  \/ Initialize(Admin, Bot, 30)
  \/ InitializeRover(Admin, "dist_pool")
  \/ OpenPositionV2("alice", "p1", MIN_POSITION_AMOUNT, 0, 0, "Buy", 10)
  \/ OpenRoverPosition(Keeper, "p1", MIN_ROVER_DEPOSIT, 100)
  \/ Donate("p1", "XY", 500)
  \/ HarvestBins(Bot, "p1", <<0>>, OwnAccts("p1", NoAta))
  \/ ClaimFees("alice", "p1", OwnAccts("p1", NoAta))
  \/ ClosePosition(Bot, "p1", OwnAccts("p1", NoAta))
  \/ UserClose("alice", "p1", OwnAccts("p1", NoAta))
  \/ ProposeEmergencyClose(Admin, "p1")
  \/ ApplyEmergencyClose(Keeper, "p1", AcctsOf("p1"))

SpecStranded == Init /\ [][NextStranded]_vars

\* the Meteora position of p exists and the program has no Position record
Stranded(p) == ~position[p].initialized /\ meteora[p].exists

\* C37: an accepted apply_emergency_close pays the owner exactly the two
\* vault balances and leaves the Meteora position as it is; once the Position
\* record is gone while the Meteora position exists, every instruction naming
\* the key (the opens included) is rejected, the record never comes back and
\* the Meteora position never changes
C37_EmergencyCloseStrandsLiquidity ==
  /\ [](\A p \in PositionKeys :
          Stranded(p) =>
            /\ ~vault[p].initialized
            /\ \A signer \in Signers :
                 /\ HarvestBinsError(config, signer, p, <<0>>, AcctsOf(p)) # ""
                 /\ ClaimFeesError(signer, p, AcctsOf(p)) # ""
                 /\ ClosePositionError(config, signer, p, AcctsOf(p)) # ""
                 /\ UserCloseError(config, signer, p, AcctsOf(p)) # ""
                 /\ ApplyEmergencyCloseError(signer, p, AcctsOf(p)) # ""
                 /\ OpenPositionV2Error(signer, p, MIN_POSITION_AMOUNT, 0, 0, 10) # ""
                 /\ OpenRoverPositionError(signer, p, MIN_ROVER_DEPOSIT, 100) # "")
  /\ [][/\ (result'.op = "apply_emergency_close" /\ result'.err = "") =>
             /\ meteora' = meteora
             /\ result'.recipient = position[result'.position].owner
             /\ result'.x_to_owner = vault_token[result'.position].x
             /\ result'.y_to_owner = vault_token[result'.position].y
             /\ vault_token'[result'.position] = [x |-> 0, y |-> 0]
             /\ ~position'[result'.position].initialized
        /\ \A p \in PositionKeys :
             /\ Stranded(p) => (Stranded(p)' /\ meteora'[p] = meteora[p])
             /\ (~Stranded(p) /\ Stranded(p)') =>
                  (result'.op = "apply_emergency_close" /\ result'.err = ""
                   /\ result'.position = p)]_vars

\* the deposit of an emergency-closed position is still in the pool and an
\* open under the same key has just failed
C37_Witness ==
  /\ Stranded("p1")
  /\ HeldY(meteora["p1"]) = MIN_POSITION_AMOUNT
  /\ vault_token["p1"] = [x |-> 0, y |-> 0]
  /\ result.op = "open_position_v2" /\ result.err = "MeteoraError"

SmbMints == {n \in Mints : Collection(n) \in {"smb_gen2", "smb_gen3"}}

\* validate_collection_and_weight: 2 for the Gen2 collection, 1 for Gen3
WeightMultiplier(n) == IF Collection(n) = "smb_gen2" THEN 2 ELSE 1

\* the caller's token account of the mint holds the one token
HoldsNft(user, n) == nft[n].supply = 1 /\ nft[n].holder = user

\* (share_weight * accumulator).checked_sub(reward_debt).unwrap_or(0)
PendingScaled(burn, accumulated) ==
  IF burn.share_weight * accumulated >= burn.reward_debt
  THEN burn.share_weight * accumulated - burn.reward_debt
  ELSE 0

\* the lamports a claim pays: pending_scaled / PRECISION
Owed(burn, accumulated) == PendingScaled(burn, accumulated) \div PRECISION

\* a feed that forgets the settlement: reward_debt stays as it was
FeedSettle_KeepsDebt(burn, accumulated, weight_multiplier) ==
  LET fresh == IF burn.share_weight = 0
               THEN [burn EXCEPT !.exists = TRUE, !.claimed_sol = 0, !.reward_debt = 0]
               ELSE burn
  IN [fresh EXCEPT !.share_weight = @ + weight_multiplier]

\* feed_monke steps 4-6: the record after a feed of weight_multiplier
FeedSettle(burn, accumulated, weight_multiplier) ==
  LET fresh == IF burn.share_weight = 0
               THEN [burn EXCEPT !.exists = TRUE, !.claimed_sol = 0, !.reward_debt = 0]
               ELSE burn
      pending_scaled == PendingScaled(fresh, accumulated)
      new_weight == fresh.share_weight + weight_multiplier
      new_entitled == new_weight * accumulated
  IN [fresh EXCEPT !.share_weight = new_weight,
                   !.reward_debt = IF new_entitled >= pending_scaled
                                   THEN new_entitled - pending_scaled ELSE 0]

FeedMonkeError(user, n) ==
  IF ~HoldsNft(user, n) THEN "NotNftHolder"
  ELSE IF monke_state.paused THEN "Paused"
  ELSE IF n \notin SmbMints THEN "InvalidCollection"
  ELSE IF bananas[user] < BANANAS_PER_FEED THEN "InsufficientFunds"
  ELSE ""

FeedMonke(user, n) ==
  LET err == FeedMonkeError(user, n) IN
    /\ IF err # ""
       THEN /\ result' = Rejected("feed_monke", err)
            /\ UNCHANGED monke
       ELSE /\ bananas' = [bananas EXCEPT ![user] = @ - BANANAS_PER_FEED]
            /\ monke_burn' = [monke_burn EXCEPT ![n] =
                                FeedSettle(@, monke_state.accumulated_sol_per_share,
                                           WeightMultiplier(n))]
            /\ monke_state' = [monke_state EXCEPT
                                 !.total_share_weight = @ + WeightMultiplier(n),
                                 !.total_bananas_burned = @ + BANANAS_PER_FEED]
            /\ result' = [NoResult EXCEPT !.op = "feed_monke", !.signer = user]
            /\ UNCHANGED <<nft, monke_lamports>>
    /\ UNCHANGED <<clock, ledger>>

\* distributable * PRECISION / total_share_weight
DepositIncrement(distributable, total_share_weight) ==
  (distributable * PRECISION) \div total_share_weight

\* dist_pool.lamports().saturating_sub(rent)
Distributable ==
  IF monke_lamports["dist_pool"] >= RentMinimum
  THEN monke_lamports["dist_pool"] - RentMinimum ELSE 0

DepositSolError ==
  IF monke_state.total_share_weight = 0 THEN "NoMonkes"
  ELSE IF Distributable < MIN_DEPOSIT_LAMPORTS THEN "NothingToDeposit"
  ELSE ""

DepositSol(caller) ==
  LET err == DepositSolError IN
    /\ IF err # ""
       THEN /\ result' = Rejected("deposit_sol", err)
            /\ UNCHANGED monke
       ELSE /\ monke_lamports' = [monke_lamports EXCEPT
                                    !["dist_pool"] = @ - Distributable,
                                    !["program_vault"] = @ + Distributable]
            /\ monke_state' = [monke_state EXCEPT
                                 !.accumulated_sol_per_share =
                                    @ + DepositIncrement(Distributable,
                                                         monke_state.total_share_weight),
                                 !.total_sol_distributed = @ + Distributable]
            /\ result' = [NoResult EXCEPT !.op = "deposit_sol", !.signer = caller]
            /\ UNCHANGED <<monke_burn, nft, bananas>>
    /\ UNCHANGED <<clock, ledger>>

ClaimError(user, n) ==
  IF ~monke_burn[n].exists THEN "AccountNotInitialized"
  ELSE IF ~HoldsNft(user, n) THEN "NotNftHolder"
  ELSE IF Owed(monke_burn[n], monke_state.accumulated_sol_per_share) = 0
  THEN "NothingToClaim"
  ELSE IF monke_lamports["program_vault"]
            < Owed(monke_burn[n], monke_state.accumulated_sol_per_share) + RentMinimum
  THEN "InsufficientVaultBalance"
  ELSE ""

\* claim: works when paused; reward_debt is reset to weight * accumulator
Claim(user, n) ==
  LET err == ClaimError(user, n)
      owed == Owed(monke_burn[n], monke_state.accumulated_sol_per_share)
  IN
    /\ IF err # ""
       THEN /\ result' = Rejected("claim", err)
            /\ UNCHANGED monke
       ELSE /\ monke_lamports' = [monke_lamports EXCEPT
                                    !["program_vault"] = @ - owed, ![user] = @ + owed]
            /\ monke_burn' = [monke_burn EXCEPT
                                ![n].reward_debt =
                                   monke_burn[n].share_weight
                                     * monke_state.accumulated_sol_per_share,
                                ![n].claimed_sol = @ + owed]
            /\ result' = [NoResult EXCEPT !.op = "claim", !.signer = user,
                                          !.lamports = owed]
            /\ UNCHANGED <<monke_state, nft, bananas>>
    /\ UNCHANGED <<clock, ledger>>

CompostMonkeError(n) ==
  IF ~monke_burn[n].exists THEN "AccountNotInitialized"
  ELSE IF nft[n].supply # 0 THEN "NftNotBurned"
  ELSE IF monke_state.total_share_weight < monke_burn[n].share_weight THEN "Overflow"
  ELSE ""

\* a compost that closes the record and leaves the total weight alone
CompostMonke_KeepsWeight(caller, n) ==
  LET err == CompostMonkeError(n) IN
    /\ IF err # ""
       THEN /\ result' = Rejected("compost_monke", err)
            /\ UNCHANGED monke
       ELSE /\ monke_burn' = [monke_burn EXCEPT ![n] = NoMonkeBurn]
            /\ result' = [NoResult EXCEPT !.op = "compost_monke", !.signer = caller]
            /\ UNCHANGED <<monke_state, nft, bananas, monke_lamports>>
    /\ UNCHANGED <<clock, ledger>>

\* compost_monke: permissionless; the dead weight leaves the total, the
\* MonkeBurn account is closed, the unclaimed SOL stays in program_vault
CompostMonke(caller, n) ==
  LET err == CompostMonkeError(n) IN
    /\ IF err # ""
       THEN /\ result' = Rejected("compost_monke", err)
            /\ UNCHANGED monke
       ELSE /\ monke_state' = [monke_state EXCEPT
                                 !.total_share_weight = @ - monke_burn[n].share_weight]
            /\ monke_burn' = [monke_burn EXCEPT ![n] = NoMonkeBurn]
            /\ result' = [NoResult EXCEPT !.op = "compost_monke", !.signer = caller]
            /\ UNCHANGED <<nft, bananas, monke_lamports>>
    /\ UNCHANGED <<clock, ledger>>

\* pause / unpause (AdminOnly)
MonkeSetPaused(signer, paused) ==
  /\ IF signer # monke_state.authority
     THEN /\ result' = Rejected(IF paused THEN "pause" ELSE "unpause", "Unauthorized")
          /\ UNCHANGED monke
     ELSE /\ monke_state' = [monke_state EXCEPT !.paused = paused]
          /\ result' = [NoResult EXCEPT !.op = IF paused THEN "pause" ELSE "unpause",
                                        !.signer = signer]
          /\ UNCHANGED <<monke_burn, nft, bananas, monke_lamports>>
  /\ UNCHANGED <<clock, ledger>>

\* environment: revenue arrives in dist_pool (sweep_rover, fee routing)
MaxFunded == 22
Fundings == {5, 11}
FundDistPool(amount) ==
  /\ monke_lamports["dist_pool"] + monke_state.total_sol_distributed + amount <= MaxFunded
  /\ monke_lamports' = [monke_lamports EXCEPT !["dist_pool"] = @ + amount]
  /\ result' = NoResult
  /\ UNCHANGED <<clock, ledger, monke_state, monke_burn, nft, bananas>>

\* environment: the token program moves an NFT to another wallet, or burns it
TransferNft(n, to) ==
  /\ nft[n].supply = 1
  /\ nft[n].holder # to
  /\ nft' = [nft EXCEPT ![n].holder = to]
  /\ result' = NoResult
  /\ UNCHANGED <<clock, ledger, monke_state, monke_burn, bananas, monke_lamports>>

BurnNft(n) ==
  /\ nft[n].supply = 1
  /\ nft' = [nft EXCEPT ![n] = [holder |-> NoHolder, supply |-> 0]]
  /\ result' = NoResult
  /\ UNCHANGED <<clock, ledger, monke_state, monke_burn, bananas, monke_lamports>>

\* ------------------------------------------------ scenario: revenue share
\* two users feed a Gen2 and a Gen3 NFT, revenue arrives and is deposited,
\* holders claim, NFTs change hands or are burned and composted
NextMonke ==
  \/ \E u \in Users, n \in Mints : FeedMonke(u, n)
  \/ \E amount \in Fundings : FundDistPool(amount)
  \/ DepositSol(Keeper)
  \/ \E u \in Users, n \in SmbMints : Claim(u, n)
  \/ \E n \in SmbMints : CompostMonke(Keeper, n)
  \/ \E signer \in {Admin, Keeper} : MonkeSetPaused(signer, TRUE)
  \/ MonkeSetPaused(Admin, FALSE)
  \/ TransferNft("smb3", "bob")
  \/ BurnNft("smb2")

SpecMonke == Init /\ [][NextMonke]_vars

\* ---------------------------------------------------------------- C39
PendingNow(n) == PendingScaled(monke_burn[n], monke_state.accumulated_sol_per_share)
ClaimableNow(n) == Owed(monke_burn[n], monke_state.accumulated_sol_per_share)
FeedSucceeded == result'.op = "feed_monke" /\ result'.err = ""
DepositSucceeded == result'.op = "deposit_sol" /\ result'.err = ""
Deposited == monke_state'.total_sol_distributed - monke_state.total_sol_distributed
\* floor(weight * D / total weight), with the weights at the time of the deposit
FloorShare(n) ==
  (monke_burn[n].share_weight * Deposited) \div monke_state.total_share_weight
\* weight * floor(D * PRECISION / total weight), in scaled units
ScaledShare(n) ==
  monke_burn[n].share_weight
    * ((Deposited * PRECISION) \div monke_state.total_share_weight)

\* a feed leaves the pending reward of every record, the fed one included,
\* exactly as it was, in scaled units and in lamports
FeedKeepsPending ==
  FeedSucceeded =>
    \A n \in Mints : /\ PendingNow(n)' = PendingNow(n)
                     /\ ClaimableNow(n)' = ClaimableNow(n)

\* a deposit adds to each record's pending reward, in scaled units, its
\* weight at that moment times the per-share increment
DepositAddsScaledShare ==
  DepositSucceeded =>
    \A n \in Mints : /\ monke_burn'[n] = monke_burn[n]
                     /\ PendingNow(n)' = PendingNow(n) + ScaledShare(n)

\* in lamports the growth is within one of the floor share
DepositNearFloorShare ==
  DepositSucceeded =>
    \A n \in Mints : /\ ClaimableNow(n)' >= ClaimableNow(n) + FloorShare(n) - 1
                     /\ ClaimableNow(n)' <= ClaimableNow(n) + FloorShare(n) + 1

\* C39 (as the code has it): feed_monke leaves every NFT's pending reward
\* unchanged, exactly, in scaled units, so the added weight earns nothing from
\* earlier deposits; a deposit_sol of D adds to the pending reward of each
\* NFT exactly weight * floor(D * PRECISION / total_share_weight) scaled
\* units at the weight the NFT has at the deposit, and its claimable lamports
\* grow by the floor share floor(weight * D / total weight) give or take one
C39_FeedEarnsNothingRetroactively ==
  [][FeedKeepsPending /\ DepositAddsScaledShare /\ DepositNearFloorShare]_vars

\* a record that had a claimable reward has just been fed again
C39_Witness ==
  /\ result.op = "feed_monke" /\ result.err = ""
  /\ \E n \in Mints : /\ monke_burn[n].share_weight > WeightMultiplier(n)
                      /\ monke_burn[n].reward_debt > 0
                      /\ ClaimableNow(n) > 0

\* C39 as stated: after a deposit of D the claimable lamports of every NFT
\* have grown by exactly floor(weight * D / total weight)
C39_GrowsByExactFloorShare ==
  [][/\ FeedKeepsPending
     /\ DepositSucceeded =>
          \A n \in Mints : ClaimableNow(n)' = ClaimableNow(n) + FloorShare(n)]_vars

\* ---------------------------------------------------------------- C40
RECURSIVE SumOver(_, _)
SumOver(f, S) ==
  IF S = {} THEN 0
  ELSE LET n == CHOOSE m \in S : TRUE IN f[n] + SumOver(f, S \ {n})

MonkeBurns == {n \in Mints : monke_burn[n].exists}
\* lamports claimed so far plus claimable now, over the existing records
ClaimedAndClaimable ==
  SumOver([n \in Mints |-> monke_burn[n].claimed_sol + ClaimableNow(n)], MonkeBurns)
\* lamports the program_vault has paid out, to anyone, so far
PaidOut == SumOver([u \in Users |-> monke_lamports[u]], Users)
Claimable == SumOver([n \in Mints |-> ClaimableNow(n)], MonkeBurns)

\* C40: the SOL claimed plus the SOL claimable, summed over the NFTs, never
\* exceeds total_sol_distributed, also when the claims of composted NFTs are
\* counted, and program_vault always holds what is claimable on top of its
\* rent; total_share_weight equals the sum of share_weight over the existing
\* MonkeBurn records
C40_SharesNeverExceedDeposits ==
  /\ ClaimedAndClaimable <= monke_state.total_sol_distributed
  /\ PaidOut + Claimable <= monke_state.total_sol_distributed
  /\ monke_lamports["program_vault"] >= RentMinimum + Claimable
  /\ monke_state.total_share_weight
       = SumOver([n \in Mints |-> monke_burn[n].share_weight], MonkeBurns)

\* a burned NFT has just been composted while another record, which has
\* claimed before, has a reward pending, and rounding or the composted share
\* has left lamports nobody can claim
C40_Witness ==
  /\ result.op = "compost_monke" /\ result.err = ""
  /\ \E n \in MonkeBurns : monke_burn[n].claimed_sol > 0 /\ ClaimableNow(n) > 0
  /\ PaidOut + Claimable < monke_state.total_sol_distributed

====
